---- MODULE Spec2Model ----
(***************************************************************************)
(* Model of the johny learning system: the knowledge graph (topic DAG     *)
(* with prerequisites) of src/johny/knowledge/graph.py, the mastery       *)
(* records of src/johny/mastery and the review scheduler of               *)
(* src/johny/review.                                                       *)
(*                                                                         *)
(* A Python dict is modelled by what the code observes of it: the topic   *)
(* table is a sequence of entries (insertion order kept, overwrite in     *)
(* place); the two defaultdict adjacency maps are functions whose DOMAIN  *)
(* is the set of keys that exist.  The iteration order of a Python set is *)
(* not fixed by the language, so every operation that iterates a set      *)
(* takes an order `ord` (a permutation of the ids) chosen by the action.  *)
(***************************************************************************)
EXTENDS Integers, Sequences, FiniteSets, TLC

(* ------------------------------ bounds -------------------------------- *)

\* topic ids the operations are called with
TopicIds == {"A", "B", "C"}

\* difficulty is a float on a 0..1 scale; it is kept here in tenths
DefaultDifficulty == 5

\* difficulties above the default that add_topic is called with
DifficultySpread == 1

\* longest topics list and prerequisite-edge list of a loaded snapshot
MaxSnapTopics == 2
MaxSnapEdges == 2

\* largest max_depth get_fire_ancestors is called with
MaxDepthArg == 2

\* default max_depth of get_fire_ancestors; weights are kept in units of
\* 1 / 2^DefaultMaxDepth so that halving is exact, as it is for floats
DefaultMaxDepth == 4
FireScale == 2 ^ DefaultMaxDepth

\* floats other than scores and weights (stability and time in days,
\* retention, average score) are kept in thousandths
Scale == 1000

\* scores are kept in twentieths: every threshold of the code (0.3, 0.4, 0.5,
\* 0.6, 0.7, 0.8, 0.95) is a whole number of them
ScoreScale == 20

\* the score n/100
Pct(n) == (n * ScoreScale) \div 100

Scores == 0..ScoreScale

\* most record_practice calls on one record in a run
MaxPractice == 2
\* practice calls on one record where a long run is needed
MaxLongPractice == 4
\* practice calls on one record in the run that fills the history
MaxChainPractice == 52
\* steps of the clock where calls at several instants are needed
MaxTicks == 3
\* complete_review calls on one record before get_due_reviews is asked
MaxReviews == 1
\* largest limit passed to get_due_reviews
MaxLimit == 2
\* most records in a store loaded for optimize_schedule
MaxStore == 102
\* the clock reading up to which a session is followed
MaxSessionTime == 11
\* tasks added to one session
MaxTasks == 2
\* complete_task and skip_task calls on one session
MaxTaskCalls == 3
\* sessions one state directory is given
MaxSessions == 3
\* practice and review commands in the run that follows the FIRe credit
MaxCredit == 3

VARIABLES topics, prerequisites, dependents, result, records, now, held, state_dir

graphVars == <<topics, prerequisites, dependents>>

\* MasteryTracker.records and the clock read by datetime.utcnow()
masteryVars == <<records, now>>

\* SessionManager._active_session and the files of its state directory
sessionVars == <<held, state_dir>>

vars == <<topics, prerequisites, dependents, result, records, now, held, state_dir>>

\* no session held: _active_session is None (a held session is <<session>>)
NoSession == <<>>

\* the state directory with no active.json and no session file
EmptyStateDir == [active |-> <<>>, sessions |-> <<>>]

(* ------------------------------ helpers ------------------------------- *)

\* all iteration orders a set of ids can have
Orders == {o \in [1..Cardinality(TopicIds) -> TopicIds] :
             \A i, j \in 1..Cardinality(TopicIds) : i # j => o[i] # o[j]}

\* `for x in S` with iteration order ord
Iter(S, ord) == SelectSeq(ord, LAMBDA x : x \in S)

\* dict.get(key, set())
Get(map, key) == IF key \in DOMAIN map THEN map[key] ELSE {}

\* defaultdict(set)[key].add(value)
AddTo(map, key, value) ==
    [k \in DOMAIN map \cup {key} |-> IF k = key THEN Get(map, k) \cup {value} ELSE map[k]]

EmptyMap == [k \in {} |-> {}]

\* keys of the topic table
Registered(tps) == {tps[i].id : i \in 1..Len(tps)}

\* KnowledgeGraph(): the dataclass defaults
NewGraph == [topics |-> <<>>, prerequisites |-> EmptyMap, dependents |-> EmptyMap]

\* the graph object held in the variables
Graph == [topics |-> topics, prerequisites |-> prerequisites, dependents |-> dependents]

(* ------------------------------ add_topic ----------------------------- *)

\* self.topics[topic.id] = topic
AddTopicOp(g, topic) ==
    IF topic.id \in Registered(g.topics)
    THEN [g EXCEPT !.topics = [i \in 1..Len(g.topics) |->
                                  IF g.topics[i].id = topic.id THEN topic ELSE g.topics[i]]]
    ELSE [g EXCEPT !.topics = Append(g.topics, topic)]

(* --------------------------- add_prerequisite ------------------------- *)

RECURSIVE CycleBfs(_, _, _, _, _)
CycleBfs(deps, queue, visited, prereq_id, ord) ==
    IF queue = <<>> THEN FALSE
    ELSE LET current == Head(queue)
             rest == Tail(queue)
         IN  IF current = prereq_id THEN TRUE
             ELSE IF current \in visited
                  THEN CycleBfs(deps, rest, visited, prereq_id, ord)
                  ELSE CycleBfs(deps, rest \o Iter(Get(deps, current), ord),
                                visited \cup {current}, prereq_id, ord)

\* mutant: only the direct edge is looked at, the traversal is not transitive
WouldCreateCycleDirectOnly(g, topic_id, prereq_id, ord) ==
    topic_id = prereq_id \/ prereq_id \in Get(g.dependents, topic_id)

\* mutant: the traversal starts at the dependents of topic_id, so topic_id
\* itself is never compared with prereq_id
WouldCreateCycleSkipsStart(g, topic_id, prereq_id, ord) ==
    CycleBfs(g.dependents, Iter(Get(g.dependents, topic_id), ord), {}, prereq_id, ord)

\* mutant: the traversal follows prerequisites instead of dependents
WouldCreateCycleWrongWay(g, topic_id, prereq_id, ord) ==
    CycleBfs(g.prerequisites, <<topic_id>>, {}, prereq_id, ord)

\* _would_create_cycle: breadth-first from topic_id over dependents, looking
\* for prereq_id
WouldCreateCycle(g, topic_id, prereq_id, ord) ==
    CycleBfs(g.dependents, <<topic_id>>, {}, prereq_id, ord)

\* mutant: the edge is stored in prerequisites before the cycle check
AddPrerequisiteOpEarlyWrite(g, topic_id, prereq_id, ord) ==
    IF topic_id \notin Registered(g.topics)
    THEN [g |-> g, err |-> "TopicNotFound"]
    ELSE IF prereq_id \notin Registered(g.topics)
    THEN [g |-> g, err |-> "PrereqNotFound"]
    ELSE IF WouldCreateCycle(g, topic_id, prereq_id, ord)
    THEN [g |-> [g EXCEPT !.prerequisites = AddTo(g.prerequisites, topic_id, prereq_id)],
          err |-> "Cycle"]
    ELSE [g |-> [g EXCEPT !.prerequisites = AddTo(g.prerequisites, topic_id, prereq_id),
                          !.dependents = AddTo(g.dependents, prereq_id, topic_id)],
          err |-> "none"]

\* mutant: only topic_id is looked up in the topic table, prereq_id is not
AddPrerequisiteOpNoPrereqCheck(g, topic_id, prereq_id, ord) ==
    IF topic_id \notin Registered(g.topics)
    THEN [g |-> g, err |-> "TopicNotFound"]
    ELSE IF WouldCreateCycle(g, topic_id, prereq_id, ord)
    THEN [g |-> g, err |-> "Cycle"]
    ELSE [g |-> [g EXCEPT !.prerequisites = AddTo(g.prerequisites, topic_id, prereq_id),
                          !.dependents = AddTo(g.dependents, prereq_id, topic_id)],
          err |-> "none"]

\* mutant: the edge is mirrored under the wrong key of dependents
AddPrerequisiteOpWrongMirror(g, topic_id, prereq_id, ord) ==
    IF topic_id \notin Registered(g.topics)
    THEN [g |-> g, err |-> "TopicNotFound"]
    ELSE IF prereq_id \notin Registered(g.topics)
    THEN [g |-> g, err |-> "PrereqNotFound"]
    ELSE IF WouldCreateCycle(g, topic_id, prereq_id, ord)
    THEN [g |-> g, err |-> "Cycle"]
    ELSE [g |-> [g EXCEPT !.prerequisites = AddTo(g.prerequisites, topic_id, prereq_id),
                          !.dependents = AddTo(g.dependents, topic_id, prereq_id)],
          err |-> "none"]

\* outcome of add_prerequisite: the graph afterwards and the error raised
\* ("none" when the call returns normally)
AddPrerequisiteOp(g, topic_id, prereq_id, ord) ==
    IF topic_id \notin Registered(g.topics)
    THEN [g |-> g, err |-> "TopicNotFound"]
    ELSE IF prereq_id \notin Registered(g.topics)
    THEN [g |-> g, err |-> "PrereqNotFound"]
    ELSE IF WouldCreateCycle(g, topic_id, prereq_id, ord)
    THEN [g |-> g, err |-> "Cycle"]
    ELSE [g |-> [g EXCEPT !.prerequisites = AddTo(g.prerequisites, topic_id, prereq_id),
                          !.dependents = AddTo(g.dependents, prereq_id, topic_id)],
          err |-> "none"]

(* ------------------------ get_all_prerequisites ----------------------- *)

RECURSIVE AllPrereqBfs(_, _, _, _)
AllPrereqBfs(pre, queue, all_prereqs, ord) ==
    IF queue = <<>> THEN all_prereqs
    ELSE LET prereq_id == Head(queue)
         IN  IF prereq_id \in all_prereqs
             THEN AllPrereqBfs(pre, Tail(queue), all_prereqs, ord)
             ELSE AllPrereqBfs(pre, Tail(queue) \o Iter(Get(pre, prereq_id), ord),
                               all_prereqs \cup {prereq_id}, ord)

\* mutant: the queue is never extended, only direct prerequisites are found
GetAllPrerequisitesDirectOnly(g, topic_id, ord) ==
    SelectSeq(Iter(Get(g.prerequisites, topic_id), ord),
              LAMBDA pid : pid \in Registered(g.topics))

\* the returned list of topics, given by their ids
GetAllPrerequisites(g, topic_id, ord) ==
    LET all_prereqs == AllPrereqBfs(g.prerequisites,
                                    Iter(Get(g.prerequisites, topic_id), ord), {}, ord)
    IN  SelectSeq(Iter(all_prereqs, ord), LAMBDA pid : pid \in Registered(g.topics))

(* --------------------------- get_learning_path ------------------------ *)

\* the for loop over the dependents of the topic just emitted
RECURSIVE Relax(_, _, _)
Relax(ds, in_degree, queue) ==
    IF ds = <<>> THEN [in_degree |-> in_degree, queue |-> queue]
    ELSE LET dependent_id == Head(ds)
         IN  IF dependent_id \in DOMAIN in_degree
             THEN LET nd == [in_degree EXCEPT ![dependent_id] = @ - 1]
                  IN  Relax(Tail(ds), nd,
                            IF nd[dependent_id] = 0 THEN Append(queue, dependent_id)
                            ELSE queue)
             ELSE Relax(Tail(ds), in_degree, queue)

RECURSIVE KahnLoop(_, _, _, _, _)
KahnLoop(deps, queue, in_degree, res, ord) ==
    IF queue = <<>> THEN res
    ELSE LET current == Head(queue)
             r == Relax(Iter(Get(deps, current), ord), in_degree, Tail(queue))
         IN  KahnLoop(deps, r.queue, r.in_degree, Append(res, current), ord)

\* mutant: a dependent is queued at every decrement, not only at zero
RECURSIVE RelaxEager(_, _, _)
RelaxEager(ds, in_degree, queue) ==
    IF ds = <<>> THEN [in_degree |-> in_degree, queue |-> queue]
    ELSE LET dependent_id == Head(ds)
         IN  IF dependent_id \in DOMAIN in_degree /\ in_degree[dependent_id] > 0
             THEN RelaxEager(Tail(ds), [in_degree EXCEPT ![dependent_id] = 0],
                             Append(queue, dependent_id))
             ELSE RelaxEager(Tail(ds), in_degree, queue)

RECURSIVE KahnLoopEager(_, _, _, _, _)
KahnLoopEager(deps, queue, in_degree, res, ord) ==
    IF queue = <<>> THEN res
    ELSE LET current == Head(queue)
             r == RelaxEager(Iter(Get(deps, current), ord), in_degree, Tail(queue))
         IN  KahnLoopEager(deps, r.queue, r.in_degree, Append(res, current), ord)

TopologicalSortEager(g, topic_ids, ord) ==
    LET in_degree == [tid \in topic_ids |->
                        Cardinality({p \in Get(g.prerequisites, tid) : p \in topic_ids})]
        queue == SelectSeq(Iter(topic_ids, ord), LAMBDA tid : in_degree[tid] = 0)
    IN  KahnLoopEager(g.dependents, queue, in_degree, <<>>, ord)

\* mutant: the in-degree counts every prerequisite, also those outside the subset
TopologicalSortAllEdges(g, topic_ids, ord) ==
    LET in_degree == [tid \in topic_ids |-> Cardinality(Get(g.prerequisites, tid))]
        queue == SelectSeq(Iter(topic_ids, ord), LAMBDA tid : in_degree[tid] = 0)
    IN  KahnLoop(g.dependents, queue, in_degree, <<>>, ord)

\* _topological_sort: Kahn's algorithm on the subset topic_ids; the in_degree
\* dict is filled in the iteration order of topic_ids
TopologicalSort(g, topic_ids, ord) ==
    LET in_degree == [tid \in topic_ids |->
                        Cardinality({p \in Get(g.prerequisites, tid) : p \in topic_ids})]
        queue == SelectSeq(Iter(topic_ids, ord), LAMBDA tid : in_degree[tid] = 0)
    IN  KahnLoop(g.dependents, queue, in_degree, <<>>, ord)

Range(seq) == {seq[i] : i \in 1..Len(seq)}

GetLearningPath(g, target_id, completed_ids, ord) ==
    IF target_id \notin Registered(g.topics)
    THEN [value |-> <<>>, err |-> "TopicNotFound"]
    ELSE LET needed_ids == Range(GetAllPrerequisites(g, target_id, ord)) \cup {target_id}
             to_learn == needed_ids \ completed_ids
         IN  [value |-> TopologicalSort(g, to_learn, ord), err |-> "none"]

(* -------------------------- get_available_topics ---------------------- *)

\* sorted(available, key=difficulty): a stable sort, equal keys keep their order
RECURSIVE SortedByDifficulty(_)
SortedByDifficulty(ts) ==
    IF ts = <<>> THEN <<>>
    ELSE LET front == SortedByDifficulty(SubSeq(ts, 1, Len(ts) - 1))
             t == ts[Len(ts)]
         IN  SelectSeq(front, LAMBDA u : u.difficulty <= t.difficulty)
             \o <<t>> \o SelectSeq(front, LAMBDA u : u.difficulty > t.difficulty)

\* mutant: completed topics are not skipped
GetAvailableTopicsKeepCompleted(g, completed_ids) ==
    SortedByDifficulty(SelectSeq(g.topics,
        LAMBDA t : Get(g.prerequisites, t.id) \subseteq completed_ids))

GetAvailableTopics(g, completed_ids) ==
    SortedByDifficulty(SelectSeq(g.topics,
        LAMBDA t : /\ t.id \notin completed_ids
                   /\ Get(g.prerequisites, t.id) \subseteq completed_ids))

(* --------------------------- get_fire_ancestors ----------------------- *)

\* weights[prereq_id] = current_weight for the ids of the level not yet in weights
Assign(weights, current_level, current_weight) ==
    [k \in DOMAIN weights \cup current_level |->
        IF k \in DOMAIN weights THEN weights[k] ELSE current_weight]

\* mutant: the weight of an id seen before is overwritten by the deeper level
AssignOverwrite(weights, current_level, current_weight) ==
    [k \in DOMAIN weights \cup current_level |->
        IF k \in current_level THEN current_weight ELSE weights[k]]

RECURSIVE FireLoopOverwrite(_, _, _, _, _)
FireLoopOverwrite(pre, depths_left, current_level, current_weight, weights) ==
    IF depths_left <= 0 \/ current_level = {} THEN weights
    ELSE FireLoopOverwrite(pre, depths_left - 1,
                  UNION {Get(pre, prereq_id) : prereq_id \in current_level},
                  current_weight \div 2,
                  AssignOverwrite(weights, current_level, current_weight))

GetFireAncestorsOverwrite(g, topic_id, max_depth) ==
    FireLoopOverwrite(g.prerequisites, max_depth, Get(g.prerequisites, topic_id),
                      FireScale \div 2, [k \in {} |-> 0])

\* the loop `for depth in range(max_depth)`
RECURSIVE FireLoop(_, _, _, _, _)
FireLoop(pre, depths_left, current_level, current_weight, weights) ==
    IF depths_left <= 0 \/ current_level = {} THEN weights
    ELSE FireLoop(pre, depths_left - 1,
                  UNION {Get(pre, prereq_id) : prereq_id \in current_level},
                  current_weight \div 2,
                  Assign(weights, current_level, current_weight))

\* weights are in units of 1 / FireScale: 0.5 is FireScale \div 2
GetFireAncestors(g, topic_id, max_depth) ==
    FireLoop(g.prerequisites, max_depth, Get(g.prerequisites, topic_id),
             FireScale \div 2, [k \in {} |-> 0])

(* ------------------------------ from_dict ----------------------------- *)

\* A snapshot is the parsed document: `topics` lists the values of the
\* "topics" mapping in document order (the code reads the id from the value,
\* never from the key); `prerequisites` lists the (tid, prereq_id) pairs of
\* the "prerequisites" mapping in document order, the pairs of one key being
\* contiguous because a mapping holds each key once.
IsGrouped(es) ==
    \A i, j, k \in 1..Len(es) :
        (i < j /\ j < k /\ es[i][1] = es[k][1]) => es[j][1] = es[i][1]

RECURSIVE LoadTopics(_, _)
LoadTopics(g, tps) ==
    IF tps = <<>> THEN g ELSE LoadTopics(AddTopicOp(g, Head(tps)), Tail(tps))

\* mutant: the first invalid relationship aborts the loop over the edges
RECURSIVE LoadEdgesAbort(_, _, _)
LoadEdgesAbort(g, es, ord) ==
    IF es = <<>> THEN g
    ELSE LET r == AddPrerequisiteOp(g, Head(es)[1], Head(es)[2], ord)
         IN  IF r.err = "none" THEN LoadEdgesAbort(r.g, Tail(es), ord) ELSE g

\* mutant: an invalid relationship takes the next one with it
RECURSIVE LoadEdgesSkipsNext(_, _, _)
LoadEdgesSkipsNext(g, es, ord) ==
    IF es = <<>> THEN g
    ELSE LET r == AddPrerequisiteOp(g, Head(es)[1], Head(es)[2], ord)
         IN  IF r.err = "none" \/ Len(es) = 1 THEN LoadEdgesSkipsNext(r.g, Tail(es), ord)
             ELSE LoadEdgesSkipsNext(r.g, Tail(Tail(es)), ord)

\* try: graph.add_prerequisite(tid, prereq_id) / except ValueError: pass
RECURSIVE LoadEdges(_, _, _)
LoadEdges(g, es, ord) ==
    IF es = <<>> THEN g
    ELSE LoadEdges(AddPrerequisiteOp(g, Head(es)[1], Head(es)[2], ord).g, Tail(es), ord)

\* mutant: the relationships are replayed before the topics are added
FromDictOpEdgesFirst(data, ord) ==
    LoadTopics(LoadEdges(NewGraph, data.prerequisites, ord), data.topics)

FromDictOp(data, ord) ==
    LoadEdges(LoadTopics(NewGraph, data.topics), data.prerequisites, ord)

(* ------------------------------- to_dict ------------------------------ *)

\* Topic.to_dict, for the fields the model keeps
TopicToDict(topic) == [id |-> topic.id, difficulty |-> topic.difficulty]

\* the (tid, prereq_id) pairs of {tid: list(prereqs)} for the keys in the
\* order given, list(prereqs) being in the order ord of the set
RECURSIVE EdgePairs(_, _, _)
EdgePairs(pre, keys, ord) ==
    IF keys = <<>> THEN <<>>
    ELSE LET prereqs == Iter(pre[Head(keys)], ord)
         IN  [i \in 1..Len(prereqs) |-> <<Head(keys), prereqs[i]>>]
             \o EdgePairs(pre, Tail(keys), ord)

\* KnowledgeGraph.to_dict: the snapshot, in the layout from_dict reads;
\* key_ord is the order of the keys of the prerequisites dict
ToDict(g, key_ord, ord) ==
    [topics |-> [i \in 1..Len(g.topics) |-> TopicToDict(g.topics[i])],
     prerequisites |-> EdgePairs(g.prerequisites, Iter(DOMAIN g.prerequisites, key_ord), ord)]

SnapTopicLists(difficulties) ==
    UNION {[1..n -> [id : TopicIds, difficulty : difficulties]] : n \in 0..MaxSnapTopics}

SnapEdgeLists ==
    {es \in UNION {[1..n -> TopicIds \X TopicIds] : n \in 0..MaxSnapEdges} : IsGrouped(es)}

(* ---------------------------- MasteryLevel ---------------------------- *)

UNKNOWN == 0
INTRODUCED == 1
DEVELOPING == 2
PROFICIENT == 3
MASTERED == 4
FLUENT == 5

Levels == UNKNOWN..FLUENT

Max(a, b) == IF a >= b THEN a ELSE b
Min(a, b) == IF a <= b THEN a ELSE b

\* MasteryLevel.score_threshold, as a score
ScoreThreshold(level) ==
    CASE level = UNKNOWN -> Pct(0)
      [] level = INTRODUCED -> Pct(0)
      [] level = DEVELOPING -> Pct(30)
      [] level = PROFICIENT -> Pct(60)
      [] level = MASTERED -> Pct(80)
      [] level = FLUENT -> Pct(95)

\* the target rank from_score maps the score to
ScoreTarget(score, current_level) ==
    IF score >= Pct(95) THEN FLUENT
    ELSE IF score >= Pct(80) THEN MASTERED
    ELSE IF score >= Pct(60) THEN PROFICIENT
    ELSE IF score >= Pct(30) THEN DEVELOPING
    ELSE Max(INTRODUCED, current_level - 1)

\* mutant: a better score advances straight to its target rank
FromScoreJump(score, current_level) ==
    LET target == ScoreTarget(score, current_level)
    IN  IF target > current_level THEN target
        ELSE IF score < Pct(30) /\ current_level > INTRODUCED THEN current_level - 1
        ELSE current_level

\* mutant: the best rank is not demoted
FromScoreFluentKept(score, current_level) ==
    LET target == ScoreTarget(score, current_level)
    IN  IF target > current_level THEN Min(current_level + 1, target)
        ELSE IF score < Pct(30) /\ current_level > INTRODUCED /\ current_level < FLUENT
             THEN current_level - 1
        ELSE current_level

\* mutant: any score of at least 0.30 advances one rank
FromScoreAnyPass(score, current_level) ==
    LET target == IF score >= Pct(30) THEN FLUENT ELSE Max(INTRODUCED, current_level - 1)
    IN  IF target > current_level THEN Min(current_level + 1, target)
        ELSE IF score < Pct(30) /\ current_level > INTRODUCED THEN current_level - 1
        ELSE current_level

\* mutant: a poor score demotes the lowest practised rank as well
FromScoreDropsToUnknown(score, current_level) ==
    LET target == ScoreTarget(score, current_level)
    IN  IF target > current_level THEN Min(current_level + 1, target)
        ELSE IF score < Pct(30) /\ current_level >= INTRODUCED THEN current_level - 1
        ELSE current_level

\* MasteryLevel.from_score
FromScore(score, current_level) ==
    LET target == ScoreTarget(score, current_level)
    IN  IF target > current_level THEN Min(current_level + 1, target)
        ELSE IF score < Pct(30) /\ current_level > INTRODUCED THEN current_level - 1
        ELSE current_level

(* ---------------------------- MasteryRecord --------------------------- *)

\* None, for a timestamp
NoTime == -1

HistoryLimit == 50

MinStability == Scale \div 2
MaxStability == 10 * Scale

\* MasteryRecord(topic_id=...): the dataclass defaults
NewRecord ==
    [level |-> UNKNOWN, last_practiced |-> NoTime, practice_count |-> 0,
     total_time_seconds |-> 0, average_score |-> 0, history |-> <<>>,
     stability |-> Scale, last_review |-> NoTime]

\* MasteryRecord.from_dict of a document that gives the level only
LoadedRecord(level) == [NewRecord EXCEPT !.level = level]

\* mutant: the stability grows from a score of 0.5 on
PracticeStabilityFromHalf(stability, score) ==
    IF score >= Pct(50) THEN Min(MaxStability, (stability * 12) \div 10)
    ELSE IF score < Pct(40) THEN Max(MinStability, (stability * 8) \div 10)
    ELSE stability

\* mutant: the growth of the stability is not capped
PracticeStabilityNoCap(stability, score) ==
    IF score >= Pct(70) THEN (stability * 12) \div 10
    ELSE IF score < Pct(40) THEN Max(MinStability, (stability * 8) \div 10)
    ELSE stability

\* the stability update of record_practice
PracticeStability(stability, score) ==
    IF score >= Pct(70) THEN Min(MaxStability, (stability * 12) \div 10)
    ELSE IF score < Pct(40) THEN Max(MinStability, (stability * 8) \div 10)
    ELSE stability

\* mutant: the oldest 50 events are kept
TrimOldestKept(history) ==
    IF Len(history) > HistoryLimit THEN SubSeq(history, 1, HistoryLimit) ELSE history

\* self.history[-50:] once the history is longer than 50
Trim(history) ==
    IF Len(history) > HistoryLimit
    THEN SubSeq(history, Len(history) - HistoryLimit + 1, Len(history))
    ELSE history

\* mutant: the event records the rank the score aims at
RecordPracticeOpTargetInEvent(rec, score, time_spent_seconds, t) ==
    LET new_level == FromScore(score, rec.level)
        count == rec.practice_count + 1
        event == [timestamp |-> t, score |-> score, level_before |-> rec.level,
                  level_after |-> ScoreTarget(score, rec.level),
                  time_spent_seconds |-> time_spent_seconds]
    IN  [level |-> new_level,
         last_practiced |-> t,
         practice_count |-> count,
         total_time_seconds |-> rec.total_time_seconds + time_spent_seconds,
         average_score |->
             (rec.average_score * (count - 1) + (score * Scale) \div ScoreScale) \div count,
         history |-> Trim(Append(rec.history, event)),
         stability |-> PracticeStability(rec.stability, score),
         last_review |-> t]

\* MasteryRecord.record_practice at time t; problem_type is left out, it is
\* only copied into the event
RecordPracticeOp(rec, score, time_spent_seconds, t) ==
    LET new_level == FromScore(score, rec.level)
        count == rec.practice_count + 1
        event == [timestamp |-> t, score |-> score, level_before |-> rec.level,
                  level_after |-> new_level, time_spent_seconds |-> time_spent_seconds]
    IN  [level |-> new_level,
         last_practiced |-> t,
         practice_count |-> count,
         total_time_seconds |-> rec.total_time_seconds + time_spent_seconds,
         average_score |->
             (rec.average_score * (count - 1) + (score * Scale) \div ScoreScale) \div count,
         history |-> Trim(Append(rec.history, event)),
         stability |-> PracticeStability(rec.stability, score),
         last_review |-> t]

(* ---------------------------- MasteryTracker -------------------------- *)

EmptyStore == [k \in {} |-> NewRecord]

\* the record get_record returns, without creating it
RecordOf(recs, topic_id) == IF topic_id \in DOMAIN recs THEN recs[topic_id] ELSE NewRecord

\* get_record: the store with the record created if it was missing
WithRecord(recs, topic_id) ==
    [k \in DOMAIN recs \cup {topic_id} |-> RecordOf(recs, k)]

\* self.records[topic_id] updated in place
PutRecord(recs, topic_id, rec) ==
    [k \in DOMAIN recs \cup {topic_id} |-> IF k = topic_id THEN rec ELSE recs[k]]

\* mutant: the last-review test is left out, every ancestor is stamped
ApplyFireCreditOpNoReviewTest(recs, fire_weights, base_score, t) ==
    LET credited == {p \in DOMAIN fire_weights : base_score * fire_weights[p] * 10
                                                    >= 3 * ScoreScale * FireScale}
    IN  [k \in DOMAIN recs \cup credited |->
            LET record == RecordOf(recs, k)
            IN  IF k \in credited
                THEN [record EXCEPT
                        !.stability = Min(MaxStability,
                            (record.stability * (10 * FireScale + fire_weights[k]))
                                \div (10 * FireScale)),
                        !.last_review = t]
                ELSE record]

\* mutant: the implicit review is also stamped as a practice
ApplyFireCreditOpStampsPractice(recs, fire_weights, base_score, t) ==
    LET credited == {p \in DOMAIN fire_weights : base_score * fire_weights[p] * 10
                                                    >= 3 * ScoreScale * FireScale}
    IN  [k \in DOMAIN recs \cup credited |->
            LET record == RecordOf(recs, k)
            IN  IF k \in credited /\ record.last_review # NoTime
                THEN [record EXCEPT
                        !.stability = Min(MaxStability,
                            (record.stability * (10 * FireScale + fire_weights[k]))
                                \div (10 * FireScale)),
                        !.last_review = t,
                        !.last_practiced = t]
                ELSE record]

\* mutant: a credit of an eighth of a point already counts
ApplyFireCreditOpLowThreshold(recs, fire_weights, base_score, t) ==
    LET credited == {p \in DOMAIN fire_weights : base_score * fire_weights[p] * 8
                                                    >= ScoreScale * FireScale}
    IN  [k \in DOMAIN recs \cup credited |->
            LET record == RecordOf(recs, k)
            IN  IF k \in credited /\ record.last_review # NoTime
                THEN [record EXCEPT
                        !.stability = Min(MaxStability,
                            (record.stability * (10 * FireScale + fire_weights[k]))
                                \div (10 * FireScale)),
                        !.last_review = t]
                ELSE record]

\* MasteryTracker.apply_fire_credit at time t (its topic_id argument is not
\* used by the code).  fire_weights maps ids to weights in units of
\* 1 / FireScale, base_score is in units of 1 / ScoreScale, so
\* base_score * weight >= 0.3 is base_score * weight * 10 >= 3 * ScoreScale
\* * FireScale, and the factor 1 + 0.1 * weight is (10 * FireScale + weight)
\* / (10 * FireScale).  get_record creates the record of a credited id.
ApplyFireCreditOp(recs, fire_weights, base_score, t) ==
    LET credited == {p \in DOMAIN fire_weights : base_score * fire_weights[p] * 10
                                                    >= 3 * ScoreScale * FireScale}
    IN  [k \in DOMAIN recs \cup credited |->
            LET record == RecordOf(recs, k)
            IN  IF k \in credited /\ record.last_review # NoTime
                THEN [record EXCEPT
                        !.stability = Min(MaxStability,
                            (record.stability * (10 * FireScale + fire_weights[k]))
                                \div (10 * FireScale)),
                        !.last_review = t]
                ELSE record]

(* ------------------------------ decay model --------------------------- *)

\* sum of the series of exp(x) from term number k on, x and the result in
\* thousandths
RECURSIVE ExpSeries(_, _, _)
ExpSeries(x, k, term) ==
    IF term = 0 THEN 0
    ELSE term + ExpSeries(x, k + 1, (term * x) \div ((k + 1) * Scale))

\* math.exp(-x) for x >= 0, x and the result in thousandths; the argument is
\* halved above 4 to keep the series small
RECURSIVE ExpNeg(_)
ExpNeg(x) ==
    IF x > 4 * Scale
    THEN LET h == ExpNeg(x \div 2) IN (h * h) \div Scale
    ELSE (Scale * Scale) \div ExpSeries(x, 0, Scale)

\* -math.log(target) in thousandths, for the retention targets the calls use
NegLog(target) ==
    CASE target = 500 -> 693
      [] target = 700 -> 357
      [] target = 850 -> 163
      [] target = 950 -> 51

\* calculate_retention(days_since_review, stability)
CalculateRetention(days, stability) ==
    IF stability <= 0 THEN 0
    ELSE Max(0, Min(Scale, ExpNeg((days * Scale) \div stability)))

\* MasteryRecord.get_retention at time t
GetRetention(rec, t) ==
    IF rec.last_review = NoTime THEN 0
    ELSE Max(0, Min(Scale, ExpNeg(((t - rec.last_review) * Scale) \div rec.stability)))

\* mutant: the level is not looked at
NeedsReviewAnyLevel(rec, threshold, t) == GetRetention(rec, t) < threshold

\* MasteryRecord.needs_review
NeedsReview(rec, threshold, t) ==
    IF rec.level = UNKNOWN THEN FALSE ELSE GetRetention(rec, t) < threshold

\* optimal_review_interval for a target in (0, 1)
OptimalReviewInterval(target, stability) == (stability * NegLog(target)) \div Scale

\* ReviewSchedule.DEFAULT_TARGET, MINIMUM_INTERVAL, MAXIMUM_INTERVAL
DefaultTarget == 850
MinimumInterval == Scale \div 2
MaximumInterval == 180 * Scale

\* ReviewSchedule.next_review_date
NextReviewDate(last_review, stability) ==
    last_review + Max(MinimumInterval,
                      Min(MaximumInterval, OptimalReviewInterval(DefaultTarget, stability)))

\* get_review_priority: retention in thousandths, level_importance in fifths
\* (1 + 0.2 * level is 5 + level fifths), days_overdue in thousandths; the
\* overdue penalty is kept in hundredths and the product is not scaled down
\* mutant: the overdue penalty reaches its maximum at 14 days
GetReviewPriorityLateCap(retention, level_importance, days_overdue) ==
    LET retention_urgency == (Scale - retention) * (Scale - retention)
        overdue_penalty == Min(100, (days_overdue * 100) \div (14 * Scale))
    IN  retention_urgency * level_importance * (100 + overdue_penalty)

GetReviewPriority(retention, level_importance, days_overdue) ==
    LET retention_urgency == (Scale - retention) * (Scale - retention)
        overdue_penalty == Min(100, (days_overdue * 100) \div (7 * Scale))
    IN  retention_urgency * level_importance * (100 + overdue_penalty)

(* ---------------------------- ReviewScheduler ------------------------- *)

\* the ReviewItem get_due_reviews builds for a record that passed the filter
ReviewItemOf(topic_id, rec, threshold, t) ==
    LET days_elapsed == IF rec.last_review # NoTime THEN t - rec.last_review ELSE 0
        retention == IF rec.last_review # NoTime
                     THEN CalculateRetention(days_elapsed, rec.stability) ELSE 0
    IN  [topic_id |-> topic_id,
         retention |-> retention,
         priority |-> GetReviewPriority(retention, 5 + rec.level,
                         Max(0, days_elapsed - OptimalReviewInterval(threshold, rec.stability))),
         days_since_review |-> days_elapsed,
         optimal_review_date |-> IF rec.last_review # NoTime
                                 THEN NextReviewDate(rec.last_review, rec.stability)
                                 ELSE NoTime,
         mastery_level |-> rec.level]

\* the two `continue` tests of the loop
IsDue(rec, threshold, t) ==
    /\ rec.level # UNKNOWN
    /\ ~((IF rec.last_review # NoTime
          THEN CalculateRetention(t - rec.last_review, rec.stability) ELSE 0) >= threshold)

\* items.sort(key=priority, reverse=True): stable, equal priorities keep
\* their order.  The place of an item is one more than the number of items
\* of a higher priority and of the items before it of the same priority
SortedByPriority(items) ==
    LET its == <<>> \o items
        Place(i) ==
            1 + Cardinality({j \in 1..Len(its) :
                                \/ its[j].priority > its[i].priority
                                \/ j < i /\ its[j].priority = its[i].priority})
        place == <<>> \o [i \in 1..Len(its) |-> Place(i)]
    IN  [r \in 1..Len(its) |-> its[CHOOSE i \in 1..Len(its) : place[i] = r]]

\* items[:limit] for limit >= 0
Truncate(items, limit) == SubSeq(items, 1, Min(limit, Len(items)))

\* mutant: the list is cut before it is sorted
GetDueReviewsCutFirst(recs, limit, threshold, t, ord) ==
    LET due == SelectSeq(Iter(DOMAIN recs, ord), LAMBDA k : IsDue(recs[k], threshold, t))
        items == [i \in 1..Len(due) |-> ReviewItemOf(due[i], recs[due[i]], threshold, t)]
    IN  SortedByPriority(Truncate(items, limit))

\* ReviewScheduler.get_due_reviews at time t; ord gives the order of the
\* records dict
GetDueReviews(recs, limit, threshold, t, ord) ==
    LET due == SelectSeq(Iter(DOMAIN recs, ord), LAMBDA k : IsDue(recs[k], threshold, t))
        items == [i \in 1..Len(due) |-> ReviewItemOf(due[i], recs[due[i]], threshold, t)]
    IN  Truncate(SortedByPriority(items), limit)

\* the limit optimize_schedule passes to get_due_reviews
DueFetchLimit == 100

\* ReviewScheduler.optimize_schedule at time t; avg_review_minutes is in
\* tenths of a minute, so int(available_minutes / avg_review_minutes) is
\* (available_minutes * 10) \div avg_review_minutes for positive arguments
OptimizeSchedule(recs, available_minutes, avg_review_minutes, t, ord) ==
    LET max_reviews == (available_minutes * 10) \div avg_review_minutes
        all_due == GetDueReviews(recs, DueFetchLimit, DefaultTarget, t, ord)
    IN  Truncate(all_due, max_reviews)

\* round(x, 2) of a value in thousandths, in hundredths (ties to even)
Round2(x) ==
    LET q == x \div 10
        r == x % 10
    IN  IF r < 5 THEN q
        ELSE IF r > 5 THEN q + 1
        ELSE IF q % 2 = 0 THEN q ELSE q + 1

\* round(x, 1) of a value in thousandths, in tenths (ties to even)
Round1(x) ==
    LET q == x \div 100
        r == x % 100
    IN  IF r < 50 THEN q
        ELSE IF r > 50 THEN q + 1
        ELSE IF q % 2 = 0 THEN q ELSE q + 1

\* mutant: the credit is propagated whatever the score
CompleteReviewOpNoScoreTest(recs, topic_id, score, fire_weights, t) ==
    LET retention_at_review == GetRetention(RecordOf(recs, topic_id), t)
        practised == PutRecord(recs, topic_id,
                               RecordPracticeOp(RecordOf(recs, topic_id), score, 0, t))
        credited == IF DOMAIN fire_weights # {}
                    THEN ApplyFireCreditOp(practised, fire_weights, score, t)
                    ELSE practised
        next_review == NextReviewDate(t, credited[topic_id].stability)
    IN  [records |-> credited,
         value |-> [topic_id |-> topic_id,
                    score |-> score,
                    new_level |-> practised[topic_id].level,
                    retention_at_review |-> retention_at_review,
                    new_stability |-> Round2(credited[topic_id].stability),
                    next_review_date |-> next_review,
                    days_until_review |-> Round1(next_review - t)]]

\* mutant: the retention is read after the practice has been recorded
CompleteReviewOpLateRetention(recs, topic_id, score, fire_weights, t) ==
    LET practised == PutRecord(recs, topic_id,
                               RecordPracticeOp(RecordOf(recs, topic_id), score, 0, t))
        credited == IF DOMAIN fire_weights # {} /\ score >= Pct(50)
                    THEN ApplyFireCreditOp(practised, fire_weights, score, t)
                    ELSE practised
        next_review == NextReviewDate(t, credited[topic_id].stability)
    IN  [records |-> credited,
         value |-> [topic_id |-> topic_id,
                    score |-> score,
                    new_level |-> practised[topic_id].level,
                    retention_at_review |-> GetRetention(practised[topic_id], t),
                    new_stability |-> Round2(credited[topic_id].stability),
                    next_review_date |-> next_review,
                    days_until_review |-> Round1(next_review - t)]]

\* ReviewScheduler.complete_review at time t: the store afterwards and the
\* dict returned.  fire_weights is a mapping, the empty one standing for
\* None and {} alike (both are falsy); the clock is read once
CompleteReviewOp(recs, topic_id, score, fire_weights, t) ==
    LET retention_at_review == GetRetention(RecordOf(recs, topic_id), t)
        practised == PutRecord(recs, topic_id,
                               RecordPracticeOp(RecordOf(recs, topic_id), score, 0, t))
        credited == IF DOMAIN fire_weights # {} /\ score >= Pct(50)
                    THEN ApplyFireCreditOp(practised, fire_weights, score, t)
                    ELSE practised
        next_review == NextReviewDate(t, credited[topic_id].stability)
    IN  [records |-> credited,
         value |-> [topic_id |-> topic_id,
                    score |-> score,
                    new_level |-> practised[topic_id].level,
                    retention_at_review |-> retention_at_review,
                    new_stability |-> Round2(credited[topic_id].stability),
                    next_review_date |-> next_review,
                    days_until_review |-> Round1(next_review - t)]]

(* ------------------------------ actions ------------------------------- *)

NoValue == <<>>

SetGraph(g) ==
    /\ topics' = g.topics
    /\ prerequisites' = g.prerequisites
    /\ dependents' = g.dependents
    /\ UNCHANGED sessionVars

Init ==
    /\ topics = <<>>
    /\ prerequisites = EmptyMap
    /\ dependents = EmptyMap
    /\ result = [op |-> "init", args |-> <<>>, err |-> "none", value |-> NoValue]
    /\ records = EmptyStore
    /\ now = 0
    /\ held = NoSession
    /\ state_dir = EmptyStateDir

AddTopic(id, difficulty) ==
    /\ SetGraph(AddTopicOp(Graph, [id |-> id, difficulty |-> difficulty]))
    /\ UNCHANGED masteryVars
    /\ result' = [op |-> "add_topic", args |-> <<id, difficulty>>, err |-> "none",
                  value |-> NoValue]

AddPrerequisite(topic_id, prereq_id) ==
    \E ord \in Orders :
        LET r == AddPrerequisiteOp(Graph, topic_id, prereq_id, ord)
        IN  /\ SetGraph(r.g)
            /\ UNCHANGED masteryVars
            /\ result' = [op |-> "add_prerequisite", args |-> <<topic_id, prereq_id>>,
                          err |-> r.err, value |-> NoValue]

\* from_dict builds its graph from cls(): it acts on the freshly constructed
\* graph, before any other operation of the run
FromDict(difficulties) ==
    /\ result.op = "init"
    /\ \E tps \in SnapTopicLists(difficulties), es \in SnapEdgeLists, ord \in Orders :
          LET data == [topics |-> tps, prerequisites |-> es]
          IN  /\ SetGraph(FromDictOp(data, ord))
              /\ UNCHANGED masteryVars
              /\ result' = [op |-> "from_dict", args |-> <<data>>, err |-> "none",
                            value |-> NoValue]

GetAllPrerequisitesCall(topic_id) ==
    /\ \E ord \in Orders :
          result' = [op |-> "get_all_prerequisites", args |-> <<topic_id>>, err |-> "none",
                     value |-> GetAllPrerequisites(Graph, topic_id, ord)]
    /\ UNCHANGED <<topics, prerequisites, dependents, sessionVars>>
    /\ UNCHANGED masteryVars

GetLearningPathCall(target_id, completed_ids) ==
    /\ \E ord \in Orders :
          LET r == GetLearningPath(Graph, target_id, completed_ids, ord)
          IN  result' = [op |-> "get_learning_path", args |-> <<target_id, completed_ids>>,
                         err |-> r.err, value |-> r.value]
    /\ UNCHANGED <<topics, prerequisites, dependents, sessionVars>>
    /\ UNCHANGED masteryVars

GetAvailableTopicsCall(completed_ids) ==
    /\ result' = [op |-> "get_available_topics", args |-> <<completed_ids>>, err |-> "none",
                  value |-> GetAvailableTopics(Graph, completed_ids)]
    /\ UNCHANGED <<topics, prerequisites, dependents, sessionVars>>
    /\ UNCHANGED masteryVars

GetFireAncestorsCall(topic_id, max_depth) ==
    /\ result' = [op |-> "get_fire_ancestors", args |-> <<topic_id, max_depth>>,
                  err |-> "none", value |-> GetFireAncestors(Graph, topic_id, max_depth)]
    /\ UNCHANGED <<topics, prerequisites, dependents, sessionVars>>
    /\ UNCHANGED masteryVars

NextGraph ==
    \/ \E id \in TopicIds : AddTopic(id, DefaultDifficulty)
    \/ \E t, p \in TopicIds : AddPrerequisite(t, p)
    \/ FromDict({DefaultDifficulty})

SpecGraph == Init /\ [][NextGraph]_vars

\* the graph built by add_topic and add_prerequisite, and the traversal queries
NextQuery ==
    \/ \E id \in TopicIds : AddTopic(id, DefaultDifficulty)
    \/ \E t, p \in TopicIds : AddPrerequisite(t, p)
    \/ \E t \in TopicIds : GetAllPrerequisitesCall(t)
    \/ \E t \in TopicIds, completed \in SUBSET TopicIds : GetLearningPathCall(t, completed)
    \/ \E t \in TopicIds, d \in 0..MaxDepthArg : GetFireAncestorsCall(t, d)

SpecQuery == Init /\ [][NextQuery]_vars

\* a catalog of topics of several difficulties, and the unlocked-topics query
Difficulties == DefaultDifficulty..(DefaultDifficulty + DifficultySpread)

NextCatalog ==
    \/ \E id \in TopicIds, d \in Difficulties : AddTopic(id, d)
    \/ \E t, p \in TopicIds : AddPrerequisite(t, p)
    \/ \E completed \in SUBSET TopicIds : GetAvailableTopicsCall(completed)

SpecCatalog == Init /\ [][NextCatalog]_vars

(* ------------------------ the snapshot round trip --------------------- *)

\* KnowledgeGraph.from_dict(graph.to_dict()): the graph built is the value,
\* kept as a one-element tuple; the graph itself is only read
RoundTripCall ==
    /\ \E key_ord \in Orders, ord \in Orders, load_ord \in Orders :
          result' = [op |-> "from_dict(to_dict)", args |-> <<>>, err |-> "none",
                     value |-> <<FromDictOp(ToDict(Graph, key_ord, ord), load_ord)>>]
    /\ UNCHANGED <<graphVars, sessionVars, masteryVars>>

NextRoundTrip ==
    \/ \E id \in TopicIds : AddTopic(id, DefaultDifficulty)
    \/ \E t, p \in TopicIds : AddPrerequisite(t, p)
    \/ RoundTripCall

SpecRoundTrip == Init /\ [][NextRoundTrip]_vars

(* ------------------------- mastery: the levels ------------------------ *)

\* the record of topic_id has been practised fewer than bound times
PracticedLessThan(topic_id, bound) == RecordOf(records, topic_id).practice_count < bound

\* MasteryTracker.record_practice; the value returned is the new level, kept
\* as a one-element tuple
RecordPractice(topic_id, score, time_spent_seconds) ==
    /\ records' = PutRecord(records, topic_id,
                     RecordPracticeOp(RecordOf(records, topic_id), score,
                                      time_spent_seconds, now))
    /\ result' = [op |-> "record_practice", args |-> <<topic_id, score, time_spent_seconds>>,
                  err |-> "none", value |-> <<records'[topic_id].level>>]
    /\ UNCHANGED <<graphVars, sessionVars, now>>

\* the store MasteryTracker.__init__ loads: no file, or a file with one
\* record of any level
InitLevels ==
    /\ topics = <<>>
    /\ prerequisites = EmptyMap
    /\ dependents = EmptyMap
    /\ result = [op |-> "init", args |-> <<>>, err |-> "none", value |-> NoValue]
    /\ records \in {EmptyStore} \cup {[k \in {"A"} |-> LoadedRecord(l)] : l \in Levels}
    /\ now = 0
    /\ held = NoSession
    /\ state_dir = EmptyStateDir

NextLevels ==
    \E score \in Scores :
        PracticedLessThan("A", MaxPractice) /\ RecordPractice("A", score, 0)

SpecLevels == InitLevels /\ [][NextLevels]_vars

(* ----------------------- mastery: the stability ----------------------- *)

\* the mappings from some of the ids to the weights
WeightMaps(ids, weights) == UNION {[d -> weights] : d \in SUBSET ids}

\* MasteryTracker.apply_fire_credit
ApplyFireCredit(topic_id, fire_weights, base_score) ==
    /\ records' = ApplyFireCreditOp(records, fire_weights, base_score, now)
    /\ result' = [op |-> "apply_fire_credit", args |-> <<topic_id, fire_weights, base_score>>,
                  err |-> "none", value |-> NoValue]
    /\ UNCHANGED <<graphVars, sessionVars, now>>

\* ReviewScheduler.complete_review; the dict returned is kept as a
\* one-element tuple
CompleteReview(topic_id, score, fire_weights) ==
    LET done == CompleteReviewOp(records, topic_id, score, fire_weights, now)
    IN  /\ records' = done.records
        /\ result' = [op |-> "complete_review", args |-> <<topic_id, score, fire_weights>>,
                      err |-> "none", value |-> <<done.value>>]
        /\ UNCHANGED <<graphVars, sessionVars, now>>

\* the highest score that lowers the stability, the lowest that keeps it and
\* the lowest that raises it
BandScores == {Pct(35), Pct(40), Pct(70)}

\* weights of -1 and 10, in units of 1 / FireScale
StabilityWeights == {0 - FireScale, 10 * FireScale}

\* no weights, one weight for the record itself, or the large weight for
\* another id
StabilityWeightMaps ==
    WeightMaps({"A"}, StabilityWeights) \cup WeightMaps({"B"}, {10 * FireScale})

NextStability ==
    \/ \E score \in BandScores :
          PracticedLessThan("A", MaxLongPractice) /\ RecordPractice("A", score, 0)
    \/ \E fire_weights \in StabilityWeightMaps, base_score \in BandScores :
          ApplyFireCredit("A", fire_weights, base_score)
    \/ \E score \in BandScores, fire_weights \in StabilityWeightMaps :
          PracticedLessThan("A", MaxLongPractice) /\ CompleteReview("A", score, fire_weights)

SpecStability == Init /\ [][NextStability]_vars

(* ===================== properties of the graph ======================== *)

\* set-level reference notions, independent of the traversals of the code
Direct(map, S) == UNION {Get(map, s) : s \in S}

\* least fixed point of repeatedly unioning the direct neighbours
RECURSIVE Closure(_, _)
Closure(map, S) ==
    LET n == S \cup Direct(map, S) IN IF n = S THEN S ELSE Closure(map, n)

\* ids reachable over one or more edges of map
Reach(map, t) == Closure(map, Direct(map, {t}))

GraphUnchanged == UNCHANGED <<topics, prerequisites, dependents>>

\* C1: in every reachable state the prerequisite relation is acyclic: no
\* topic is a direct or transitive prerequisite of itself (so no self-edge
\* is stored either).
C1_Acyclic == \A t \in TopicIds : t \notin Reach(prerequisites, t)

\* a transitive (not direct, not self) cycle attempt has just been refused
C1_Witness ==
    /\ result.op = "add_prerequisite" /\ result.err = "Cycle"
    /\ result.args[1] # result.args[2]
    /\ result.args[2] \notin Get(dependents, result.args[1])

\* C2: for registered ids, add_prerequisite(topicId, prereqId) is refused
\* with the cycle error exactly when prereqId is reachable from topicId over
\* zero or more dependents edges; otherwise the edge is accepted and stored,
\* also when it was already there or is a redundant shortcut.
C2_CycleIff ==
    [][(/\ result'.op = "add_prerequisite"
        /\ {result'.args[1], result'.args[2]} \subseteq Registered(topics))
       => LET t == result'.args[1]
              p == result'.args[2]
          IN  /\ (result'.err = "Cycle") <=> (p \in Closure(dependents, {t}))
              /\ (result'.err # "Cycle") =>
                    /\ result'.err = "none"
                    /\ p \in Get(prerequisites', t)
                    /\ t \in Get(dependents', p)]_vars

\* a redundant shortcut (prereq already two edges upstream) has been accepted
C2_Witness ==
    /\ result.op = "add_prerequisite" /\ result.err = "none"
    /\ \E m \in TopicIds \ {result.args[1], result.args[2]} :
          /\ m \in Get(prerequisites, result.args[1])
          /\ result.args[2] \in Get(prerequisites, m)
    /\ result.args[2] \in Get(prerequisites, result.args[1])

\* C3: an add_prerequisite call refused for closing a cycle leaves the topic
\* table, the prerequisites map and the dependents map exactly as they were
\* (key sets and value sets).
C3_CycleRejectionNoChange ==
    [][(result'.op = "add_prerequisite" /\ result'.err = "Cycle") => GraphUnchanged]_vars

\* after A->B and B->C the attempt C->A has been refused
C3_Witness ==
    /\ result.op = "add_prerequisite" /\ result.err = "Cycle"
    /\ result.args = <<"A", "C">>
    /\ prerequisites = [k \in {"B", "C"} |-> IF k = "B" THEN {"A"} ELSE {"B"}]
    /\ dependents = [k \in {"A", "B"} |-> IF k = "A" THEN {"B"} ELSE {"C"}]

\* C4: add_prerequisite fails with the unknown-topic error whenever one of
\* its ids is not registered and then leaves the graph unchanged; so every
\* id that is a key or a member in prerequisites or dependents is registered.
EndpointsRegistered ==
    \A map \in {prerequisites, dependents} :
        /\ DOMAIN map \subseteq Registered(topics)
        /\ \A k \in DOMAIN map : map[k] \subseteq Registered(topics)

C4_UnknownTopicRejected ==
    /\ []EndpointsRegistered
    /\ [][(/\ result'.op = "add_prerequisite"
           /\ ~({result'.args[1], result'.args[2]} \subseteq Registered(topics)))
          => (/\ result'.err \in {"TopicNotFound", "PrereqNotFound"}
              /\ GraphUnchanged)]_vars

\* a call naming an unregistered prerequisite has been refused on a graph
\* that already has an edge
C4_Witness ==
    /\ result.op = "add_prerequisite" /\ result.err = "PrereqNotFound"
    /\ result.args[2] \notin Registered(topics)
    /\ DOMAIN prerequisites # {}

\* C5: dependents is the exact inverse of prerequisites in every state
\* reached through add_topic, add_prerequisite and from_dict.
C5_Mirror ==
    \A a, b \in TopicIds : (b \in Get(prerequisites, a)) <=> (a \in Get(dependents, b))

\* from_dict has loaded a snapshot and kept an edge of it
C5_Witness ==
    /\ result.op = "from_dict"
    /\ DOMAIN prerequisites # {}

(* ================== properties of the traversal queries =============== *)

NoDup(seq) == \A i, j \in 1..Len(seq) : i # j => seq[i] # seq[j]

\* the chain A, B with prerequisite A, C with prerequisite B
IsChainABC ==
    /\ Registered(topics) = {"A", "B", "C"}
    /\ prerequisites = [k \in {"B", "C"} |-> IF k = "B" THEN {"A"} ELSE {"B"}]

\* C6: get_all_prerequisites(T) returns exactly the transitive closure of the
\* direct-prerequisite relation from T (least fixed point of unioning direct
\* prerequisites), without duplicates and never with T itself.
C6_TransitiveClosure ==
    result.op = "get_all_prerequisites" =>
        /\ Range(result.value) = Reach(prerequisites, result.args[1])
        /\ NoDup(result.value)
        /\ result.args[1] \notin Range(result.value)

\* the answer holds an ancestor that is not a direct prerequisite
C6_Witness ==
    /\ result.op = "get_all_prerequisites"
    /\ \E a \in Range(result.value) : a \notin Get(prerequisites, result.args[1])

\* C7: in the list get_learning_path returns, every topic comes after all of
\* its direct prerequisites that are in the list, and no completed id is in
\* the list; for the chain A, B, C with nothing completed it is [A, B, C].
C7_PathTopological ==
    (result.op = "get_learning_path" /\ result.err = "none") =>
        LET path == result.value
        IN  /\ \A i, j \in 1..Len(path) :
                  path[j] \in Get(prerequisites, path[i]) => j < i
            /\ Range(path) \cap result.args[2] = {}
            /\ (IsChainABC /\ result.args = <<"C", {}>>) => path = <<"A", "B", "C">>

\* a path over a topic with two prerequisites in the list, one of them being
\* a prerequisite of the other
C7_Witness ==
    /\ result.op = "get_learning_path" /\ result.err = "none"
    /\ Len(result.value) = 3
    /\ Cardinality(Get(prerequisites, result.value[3])) = 2
    /\ result.value[1] \in Get(prerequisites, result.value[2])

\* C8: for a registered target get_learning_path returns every element of
\* (transitive prerequisites of target, plus target) minus completedIds
\* exactly once and nothing else, also when the completed topics cut the
\* remaining subset into disconnected parts.
C8_PathComplete ==
    (result.op = "get_learning_path" /\ result.args[1] \in Registered(topics)) =>
        /\ result.err = "none"
        /\ NoDup(result.value)
        /\ Range(result.value) =
              (Reach(prerequisites, result.args[1]) \cup {result.args[1]}) \ result.args[2]

\* the middle topic of a chain is completed: the two ends are both returned
C8_Witness ==
    /\ result.op = "get_learning_path" /\ result.err = "none"
    /\ IsChainABC
    /\ result.args = <<"C", {"B"}>>
    /\ Range(result.value) = {"A", "C"}

\* position of a topic id in the topic table
CatalogIndex(id) == CHOOSE i \in 1..Len(topics) : topics[i].id = id

\* C9: get_available_topics returns exactly the registered topics that are
\* not completed and whose direct prerequisites are all completed, by
\* ascending difficulty, ties in catalog insertion order; for the chain A, B,
\* C it is [A] for the empty set and [B] once A is completed.
C9_AvailableTopics ==
    result.op = "get_available_topics" =>
        LET completed == result.args[1]
            avail == result.value
            ids == [i \in 1..Len(avail) |-> avail[i].id]
        IN  /\ Range(ids) = {t \in Registered(topics) :
                                t \notin completed /\ Get(prerequisites, t) \subseteq completed}
            /\ NoDup(ids)
            /\ \A i \in 1..Len(avail) : avail[i] = topics[CatalogIndex(ids[i])]
            /\ \A i, j \in 1..Len(avail) :
                  i < j => \/ avail[i].difficulty < avail[j].difficulty
                           \/ /\ avail[i].difficulty = avail[j].difficulty
                              /\ CatalogIndex(ids[i]) < CatalogIndex(ids[j])
            /\ (IsChainABC /\ completed = {}) => ids = <<"A">>
            /\ (IsChainABC /\ completed = {"A"}) => ids = <<"B">>

\* three topics are available, the hardest was registered first and comes
\* last, the other two tie
C9_Witness ==
    /\ result.op = "get_available_topics"
    /\ Len(result.value) = 3
    /\ result.value[1].difficulty = result.value[2].difficulty
    /\ result.value[2].difficulty < result.value[3].difficulty
    /\ topics[1] = result.value[3]

\* there is a chain of k prerequisite edges from t up to a
HasPath(t, a, k) ==
    \E path \in [1..(k + 1) -> TopicIds] :
        /\ path[1] = t
        /\ path[k + 1] = a
        /\ \A i \in 1..k : path[i + 1] \in Get(prerequisites, path[i])

\* C10: get_fire_ancestors(T, d) maps exactly the ancestors of T whose
\* shortest prerequisite-path distance k is in 1..d, each to 0.5^k; an
\* ancestor found at several depths keeps the shallowest weight, ancestors
\* farther than d are left out and T is never a key.
C10_FireWeights ==
    result.op = "get_fire_ancestors" =>
        LET t == result.args[1]
            d == result.args[2]
            weights == result.value
        IN  /\ DOMAIN weights = {a \in TopicIds : \E k \in 1..d : HasPath(t, a, k)}
            /\ \A a \in DOMAIN weights :
                  \E k \in 1..d : /\ HasPath(t, a, k)
                                  /\ \A j \in 1..(k - 1) : ~HasPath(t, a, j)
                                  /\ weights[a] * (2 ^ k) = FireScale
            /\ t \notin DOMAIN weights

\* an ancestor is both a direct prerequisite and a prerequisite of another
\* direct prerequisite, and the traversal went two levels deep
C10_Witness ==
    /\ result.op = "get_fire_ancestors"
    /\ result.args[2] >= 2
    /\ \E a, m \in Get(prerequisites, result.args[1]) : a \in Get(prerequisites, m)

(* ================== properties of the mastery levels ================== *)

Abs(x) == IF x >= 0 THEN x ELSE 0 - x

\* the step is a record_practice call on topic_id
IsPracticeStep == result'.op = "record_practice"

\* C11: one record_practice call moves the level by at most one rank, for
\* every current level and every score.
C11_OneRankPerPractice ==
    [][IsPracticeStep =>
         Abs(records'[result'.args[1]].level - RecordOf(records, result'.args[1]).level) <= 1]_vars

\* a score of 1.0 on an Unknown record has moved it to Introduced only
C11_Witness ==
    /\ result.op = "record_practice" /\ result.args[2] = Pct(100)
    /\ records["A"].history[Len(records["A"].history)].level_before = UNKNOWN
    /\ records["A"].level = INTRODUCED

\* C12 as stated: record_practice with score 0.5 on a fresh record moves the
\* level to Developing and leaves the stability at 1.0.
C12_FreshHalfScoreDeveloping ==
    [][(IsPracticeStep /\ result'.args[2] = Pct(50)
        /\ RecordOf(records, result'.args[1]) = NewRecord)
       => (/\ records'[result'.args[1]].level = DEVELOPING
           /\ records'[result'.args[1]].stability = Scale)]_vars

\* C12 (amended): record_practice with score 0.5 on a fresh record moves the
\* level to Introduced, one rank up from Unknown, and leaves the stability
\* at 1.0.
C12_FreshHalfScoreIntroduced ==
    [][(IsPracticeStep /\ result'.args[2] = Pct(50)
        /\ RecordOf(records, result'.args[1]) = NewRecord)
       => (/\ records'[result'.args[1]].level = INTRODUCED
           /\ records'[result'.args[1]].stability = Scale)]_vars

\* the first practice of a fresh record was scored 0.5
C12_Witness ==
    /\ result.op = "record_practice" /\ result.args[2] = Pct(50)
    /\ records["A"].practice_count = 1
    /\ records["A"].history[1].level_before = UNKNOWN
    /\ records["A"].total_time_seconds = 0

\* the rule of the level state machine, as the claim words it
RefTarget(s, l) ==
    CASE s >= Pct(95) -> FLUENT
      [] s < Pct(95) /\ s >= Pct(80) -> MASTERED
      [] s < Pct(80) /\ s >= Pct(60) -> PROFICIENT
      [] s < Pct(60) /\ s >= Pct(30) -> DEVELOPING
      [] s < Pct(30) -> IF l - 1 > INTRODUCED THEN l - 1 ELSE INTRODUCED

RefNextLevel(s, l) ==
    CASE RefTarget(s, l) > l -> l + 1
      [] RefTarget(s, l) <= l /\ s < Pct(30) /\ l > INTRODUCED -> l - 1
      [] OTHER -> l

\* C13: the level after record_practice is the one the reference rule gives,
\* for every level and score; in particular Fluent is demoted by a score
\* under 0.30.
C13_ReferenceRule ==
    [][IsPracticeStep =>
         records'[result'.args[1]].level =
             RefNextLevel(result'.args[2], RecordOf(records, result'.args[1]).level)]_vars

\* a Fluent record has been demoted to Mastered
C13_Witness ==
    /\ result.op = "record_practice" /\ result.args[2] < Pct(30)
    /\ records["A"].history[Len(records["A"].history)].level_before = FLUENT
    /\ records["A"].level = MASTERED

\* C14: when record_practice promotes a record into rank R, the score is at
\* least the score threshold of R in the level table.
C14_PromotionMeetsThreshold ==
    [][(IsPracticeStep
        /\ records'[result'.args[1]].level = RecordOf(records, result'.args[1]).level + 1)
       => result'.args[2] >= ScoreThreshold(records'[result'.args[1]].level)]_vars

\* a record has been promoted from Mastered to Fluent
C14_Witness ==
    /\ result.op = "record_practice"
    /\ records["A"].history[Len(records["A"].history)].level_before = MASTERED
    /\ records["A"].level = FLUENT

(* ------------------------ mastery: the history ------------------------ *)

\* one day of the clock, which counts thousandths of a day
Day == Scale

\* datetime.utcnow() moves on between two calls
Tick(days) ==
    /\ now' = now + days
    /\ UNCHANGED <<graphVars, sessionVars, records, result>>

\* the record has been practised at the present instant
JustPractised(topic_id) == RecordOf(records, topic_id).last_practiced = now

\* the score is the one of the latest event of the record, if it has one
SameScoreAsBefore(topic_id, score) ==
    LET history == RecordOf(records, topic_id).history
    IN  IF history = <<>> THEN TRUE ELSE history[Len(history)].score = score

\* one practice a day on one record, every day with the same score
NextHistory ==
    \/ \E score \in Scores :
          /\ PracticedLessThan("A", MaxChainPractice)
          /\ ~JustPractised("A")
          /\ SameScoreAsBefore("A", score)
          /\ RecordPractice("A", score, 0)
    \/ JustPractised("A") /\ Tick(Day)

SpecHistory == Init /\ [][NextHistory]_vars

(* ----------------------- mastery: the FIRe credit --------------------- *)

\* no record has been stamped at the present instant: two calls never read
\* the same clock value
Idle ==
    \A k \in DOMAIN records :
        records[k].last_practiced # now /\ records[k].last_review # now

\* a failing and a passing score for the ancestor's own practice
FireScores == {Pct(30), Pct(80)}

\* base scores either side of the point where half a weight still counts
FireBases == {Pct(55), Pct(60)}

\* weights of 1/2 and 1, in units of 1 / FireScale
FireWeights == {FireScale \div 2, FireScale}

\* "B" is practised, "C" never is; both are credited as ancestors of "A"
NextFire ==
    \/ \E score \in FireScores :
          Idle /\ PracticedLessThan("B", MaxPractice) /\ RecordPractice("B", score, 0)
    \/ \E fire_weights \in WeightMaps({"B", "C"}, FireWeights), base_score \in FireBases :
          Idle /\ ApplyFireCredit("A", fire_weights, base_score)
    \/ now < MaxTicks * Day /\ Tick(Day)

SpecFire == Init /\ [][NextFire]_vars

(* --------------- commands: practice complete, review complete --------- *)

\* the snapshots _load_graph finds: "A", "B" and "C" unrelated, "B" under
\* "A", the chain "A" on "B" on "C", and the chain with "C" directly under
\* "A" as well
CreditSnapshots ==
    LET tps == [i \in 1..3 |-> [id |-> <<"A", "B", "C">>[i], difficulty |-> DefaultDifficulty]]
    IN  {[topics |-> tps, prerequisites |-> es] :
            es \in {<<>>, << <<"A", "B">> >>, << <<"A", "B">>, <<"B", "C">> >>,
                    << <<"A", "B">>, <<"A", "C">>, <<"B", "C">> >>}}

\* the practice and review commands counted in the records
CreditCalls ==
    RecordOf(records, "A").practice_count + RecordOf(records, "B").practice_count
        + RecordOf(records, "C").practice_count

\* cmd_practice, action complete, for a problem id of the topic: the weights
\* come from the graph, record_practice stores the score, apply_fire_credit
\* follows for a score of 0.5 or more
PracticeComplete(topic_id, score) ==
    LET fire_weights == GetFireAncestors(Graph, topic_id, DefaultMaxDepth)
        practised == PutRecord(records, topic_id,
                               RecordPracticeOp(RecordOf(records, topic_id), score, 0, now))
    IN  /\ records' = IF score >= Pct(50)
                      THEN ApplyFireCreditOp(practised, fire_weights, score, now)
                      ELSE practised
        /\ result' = [op |-> "practice_complete", args |-> <<topic_id, score>>,
                      err |-> "none", value |-> <<practised[topic_id].level, fire_weights>>]
        /\ UNCHANGED <<graphVars, sessionVars, now>>

\* cmd_review, action complete
ReviewComplete(topic_id, score) ==
    LET fire_weights == GetFireAncestors(Graph, topic_id, DefaultMaxDepth)
        done == CompleteReviewOp(records, topic_id, score, fire_weights, now)
    IN  /\ records' = done.records
        /\ result' = [op |-> "review_complete", args |-> <<topic_id, score>>,
                      err |-> "none", value |-> <<done.value.new_level, fire_weights>>]
        /\ UNCHANGED <<graphVars, sessionVars, now>>

InitCredit ==
    /\ \E data \in CreditSnapshots, ord \in Orders :
          LET g == FromDictOp(data, ord)
          IN  /\ topics = g.topics
              /\ prerequisites = g.prerequisites
              /\ dependents = g.dependents
    /\ result = [op |-> "init", args |-> <<>>, err |-> "none", value |-> NoValue]
    /\ records = EmptyStore
    /\ now = 0
    /\ held = NoSession
    /\ state_dir = EmptyStateDir

\* scores below the test of the commands, between it and the test of the
\* credit, at the test of the credit and the full score
CreditScores == {Pct(45), Pct(55), Pct(60), Pct(100)}

NextCredit ==
    \/ \E topic_id \in TopicIds, score \in CreditScores :
          CreditCalls < MaxCredit /\ PracticeComplete(topic_id, score)
    \/ \E topic_id \in TopicIds, score \in CreditScores :
          CreditCalls < MaxCredit /\ ReviewComplete(topic_id, score)
    \/ now < Day /\ Tick(Day)

SpecCredit == InitCredit /\ [][NextCredit]_vars

(* ------------------- mastery: the ranks over a run -------------------- *)

\* a score under every threshold and one at each threshold of from_score
RankScores == {0, Pct(30), Pct(60), Pct(80), Pct(95)}

\* "A" is practised and reviewed with any of the scores and credited as a
\* prerequisite of "B", in any order, one call at each instant
NextRanks ==
    \/ \E score \in RankScores :
          Idle /\ PracticedLessThan("A", MaxLongPractice) /\ RecordPractice("A", score, 0)
    \/ \E score \in RankScores :
          Idle /\ PracticedLessThan("A", MaxLongPractice) /\ CompleteReview("A", score, <<>>)
    \/ \E fire_weights \in WeightMaps({"A"}, {FireScale \div 2}) :
          Idle /\ ApplyFireCredit("B", fire_weights, Pct(60))
    \/ ~Idle /\ now < MaxTicks * Day /\ Tick(Day)

SpecRanks == Init /\ [][NextRanks]_vars

(* ----------------------- review: the due reviews ---------------------- *)

\* ReviewScheduler.get_due_reviews; ord is the order of the records dict.
\* The value is the list of the items
GetDueReviewsCall(limit, threshold, ord) ==
    /\ result' = [op |-> "get_due_reviews", args |-> <<limit, threshold>>,
                  err |-> "none",
                  value |-> GetDueReviews(records, limit, threshold, now, ord)]
    /\ UNCHANGED <<graphVars, sessionVars, masteryVars>>

HalfDay == Day \div 2

\* the retention thresholds the calls pass
Thresholds == {500, 700, 850}

\* a failing and a passing review
ReviewScores == {Pct(30), Pct(80)}

\* the orders of the records dict that differ in the place of "A" and "B"
DueOrders == {ord \in Orders : ord[3] = "C"}

\* "A" and "B" are reviewed, "C" is only ever credited as an ancestor (of
\* "B") and stays at level Unknown
NextDue ==
    \/ \E score \in ReviewScores :
          /\ Idle
          /\ PracticedLessThan("A", MaxReviews)
          /\ CompleteReview("A", score, <<>>)
    \/ \E fire_weights \in WeightMaps({"C"}, {FireScale}) :
          /\ Idle
          /\ PracticedLessThan("B", MaxReviews)
          /\ CompleteReview("B", Pct(80), fire_weights)
    \/ \E limit \in 0..MaxLimit, threshold \in Thresholds, ord \in DueOrders :
          GetDueReviewsCall(limit, threshold, ord)
    \/ now < MaxTicks * HalfDay /\ Tick(HalfDay)

SpecDue == Init /\ [][NextDue]_vars

(* ---------------------- review: completing a review ------------------- *)

\* "A" is reviewed again and again, with itself or "B" as credited ids
NextReview ==
    \/ \E score \in ReviewScores, fire_weights \in WeightMaps({"A", "B"}, {FireScale}) :
          /\ Idle
          /\ PracticedLessThan("A", MaxPractice)
          /\ CompleteReview("A", score, fire_weights)
    \/ now < MaxTicks * HalfDay /\ Tick(HalfDay)

SpecReview == Init /\ [][NextReview]_vars

(* ------------------- review: what a review leaves alone --------------- *)

\* the scores either side of the point where a review propagates credit
FrameScores == {Pct(45), Pct(50)}

\* "B" is practised once, "A" is reviewed with "B" and "C" as credited ids
NextFrame ==
    \/ /\ Idle
       /\ PracticedLessThan("B", MaxReviews)
       /\ RecordPractice("B", Pct(80), 0)
    \/ \E score \in FrameScores, fire_weights \in WeightMaps({"B", "C"}, {FireScale}) :
          /\ Idle
          /\ PracticedLessThan("A", MaxPractice)
          /\ CompleteReview("A", score, fire_weights)
    \/ now < MaxTicks * HalfDay /\ Tick(HalfDay)

SpecFrame == Init /\ [][NextFrame]_vars

(* ----------------------- review: the day's schedule ------------------- *)

\* a store MasteryTracker._load reads from a file of n records, numbered
\* from 1 in the order of the file, of the levels Introduced to Fluent in
\* turn and none reviewed yet
LoadedStore(n) == [i \in 1..n |-> LoadedRecord(INTRODUCED + (i % FLUENT))]

\* the order of the records dict of a loaded store: the order of the file
FileOrder(recs) == [i \in 1..Cardinality(DOMAIN recs) |-> i]

\* the sizes of the stores loaded: small ones and those around the limit
StoreSizes == 0..2 \cup (DueFetchLimit - 1)..MaxStore

\* the minutes available and the minutes one review takes (in tenths)
AvailableMinutes == {3, 30, 150, 297, 300, 303, 306, 400}
AvgReviewMinutes == {15, 30}

\* ReviewScheduler.optimize_schedule
OptimizeScheduleCall(available_minutes, avg_review_minutes) ==
    /\ result' = [op |-> "optimize_schedule",
                  args |-> <<available_minutes, avg_review_minutes>>,
                  err |-> "none",
                  value |-> OptimizeSchedule(records, available_minutes, avg_review_minutes,
                                             now, FileOrder(records))]
    /\ UNCHANGED <<graphVars, sessionVars, masteryVars>>

InitSchedule ==
    /\ topics = <<>>
    /\ prerequisites = EmptyMap
    /\ dependents = EmptyMap
    /\ result = [op |-> "init", args |-> <<>>, err |-> "none", value |-> NoValue]
    /\ records \in {LoadedStore(n) : n \in StoreSizes}
    /\ now = 0
    /\ held = NoSession
    /\ state_dir = EmptyStateDir

NextSchedule ==
    \E available_minutes \in AvailableMinutes, avg_review_minutes \in AvgReviewMinutes :
        OptimizeScheduleCall(available_minutes, avg_review_minutes)

SpecSchedule == InitSchedule /\ [][NextSchedule]_vars

(* --------------------------- command surface -------------------------- *)

\* an option the command line leaves out (None) or gives empty: `not args.x`
NoArg == ""

\* the fields Topic.from_dict reads with data[...]
RequiredFields == {"id", "name", "domain"}

\* Topic.from_dict on one entry of a document; `missing` holds the required
\* fields the entry lacks
TopicFromDict(data) ==
    IF data.missing # {}
    THEN [err |-> "KeyError", topic |-> [id |-> NoArg, difficulty |-> 0]]
    ELSE [err |-> "none", topic |-> [id |-> data.id, difficulty |-> data.difficulty]]

\* the topics of a document, parsed in turn: the first entry that fails
\* raises out of the loop
RECURSIVE ParseTopics(_)
ParseTopics(tps) ==
    IF tps = <<>> THEN [err |-> "none", topics |-> <<>>]
    ELSE LET t == TopicFromDict(Head(tps))
         IN  IF t.err # "none" THEN [err |-> t.err, topics |-> <<>>]
             ELSE LET rest == ParseTopics(Tail(tps))
                  IN  [err |-> rest.err,
                       topics |-> IF rest.err = "none" THEN <<t.topic>> \o rest.topics
                                  ELSE <<>>]

\* the forms of knowledge_graph.json: no file, a file that is not JSON, a
\* document
AbsentFile == [kind |-> "absent", topics |-> <<>>, prerequisites |-> <<>>]
UnparseableFile == [kind |-> "text", topics |-> <<>>, prerequisites |-> <<>>]
JsonFile(tps, es) == [kind |-> "json", topics |-> tps, prerequisites |-> es]

\* KnowledgeGraph.save: json.dump(self.to_dict()); Topic.to_dict writes
\* every field
SaveGraph(g, key_ord, ord) ==
    LET data == ToDict(g, key_ord, ord)
    IN  JsonFile(<<>> \o [i \in 1..Len(data.topics) |->
                            [id |-> data.topics[i].id,
                             difficulty |-> data.topics[i].difficulty,
                             missing |-> {}]],
                 <<>> \o data.prerequisites)

\* KnowledgeGraph.load: json.load, then from_dict; nothing is caught
KnowledgeGraphLoad(file, ord) ==
    IF file.kind = "text" THEN [err |-> "JSONDecodeError", g |-> NewGraph]
    ELSE LET parsed == ParseTopics(file.topics)
         IN  IF parsed.err # "none" THEN [err |-> parsed.err, g |-> NewGraph]
             ELSE [err |-> "none",
                   g |-> FromDictOp([topics |-> parsed.topics,
                                     prerequisites |-> file.prerequisites], ord)]

\* KnowledgeGraph.create_default, the catalogue cut to its first two topics
\* (difficulty 0.1 and 0.2) and the relationship between them
CreateDefault(ord) ==
    LET g1 == AddTopicOp(NewGraph, [id |-> "A", difficulty |-> 1])
        g2 == AddTopicOp(g1, [id |-> "B", difficulty |-> 2])
    IN  AddPrerequisiteOp(g2, "B", "A", ord).g

\* _load_graph: the graph of the file when there is one, else the default
\* graph, saved
LoadGraph(file, key_ord, ord) ==
    IF file.kind # "absent"
    THEN LET l == KnowledgeGraphLoad(file, ord)
         IN  [err |-> l.err, g |-> l.g, file |-> file]
    ELSE [err |-> "none", g |-> CreateDefault(ord),
          file |-> SaveGraph(CreateDefault(ord), key_ord, ord)]

\* how a command ends: an envelope with "ok": true (_json_ok), one with
\* "ok": false (_json_error), or an exception that leaves main; `file` is
\* knowledge_graph.json as the command leaves it
JsonOk(file) == [err |-> "none", ok |-> TRUE, file |-> file]
JsonError(file) == [err |-> "none", ok |-> FALSE, file |-> file]
Escapes(err, file) == [err |-> err, ok |-> FALSE, file |-> file]

\* cmd_knowledge; `completed` is the set the path action reads from the
\* mastery store
CmdKnowledge(file, args, completed, key_ord, ord) ==
    LET l == LoadGraph(file, key_ord, ord)
        graph == l.g
    IN  IF l.err # "none" THEN Escapes(l.err, l.file)
        ELSE CASE args.action = "topics" -> JsonOk(l.file)
               [] args.action = "prerequisites" ->
                    IF args.topic = NoArg THEN JsonError(l.file) ELSE JsonOk(l.file)
               [] args.action = "path" ->
                    IF args.target = NoArg THEN JsonError(l.file)
                    ELSE IF GetLearningPath(graph, args.target, completed, ord).err = "none"
                         THEN JsonOk(l.file)
                         ELSE JsonError(l.file)
               [] args.action = "add-topic" ->
                    IF args.topic_json.kind # "json" THEN JsonError(l.file)
                    ELSE LET t == TopicFromDict(args.topic_json)
                         IN  IF t.err # "none" THEN JsonError(l.file)
                             ELSE JsonOk(SaveGraph(AddTopicOp(graph, t.topic), key_ord, ord))
               [] args.action = "add-prereq" ->
                    IF args.topic = NoArg \/ args.prereq = NoArg THEN JsonError(l.file)
                    ELSE LET r == AddPrerequisiteOp(graph, args.topic, args.prereq, ord)
                         IN  IF r.err = "none" THEN JsonOk(SaveGraph(r.g, key_ord, ord))
                             ELSE JsonError(l.file)
               [] args.action = "search" ->
                    IF args.query = NoArg THEN JsonError(l.file) ELSE JsonOk(l.file)
               [] OTHER -> JsonError(l.file)

\* the entries of the documents read: complete ones and ones lacking a
\* required field
FileEntries ==
    [id : {"A", "B"}, difficulty : {DefaultDifficulty}, missing : {{}, {"name"}}]

FileTopicLists == UNION {[1..n -> FileEntries] : n \in 0..2}

FileEdgeLists == {<<>>, <<<<"B", "A">>>>, <<<<"B", "A">>, <<"A", "B">>>>, <<<<"C", "A">>>>}

\* the states knowledge_graph.json is found in by the first command
GraphFiles ==
    {AbsentFile, UnparseableFile}
        \cup {JsonFile(tps, es) : tps \in FileTopicLists, es \in FileEdgeLists}

\* --topic-json: left out, not JSON, or a JSON object
NoTopicJson == [kind |-> "none", id |-> NoArg, difficulty |-> 0, missing |-> {}]
TopicJsons ==
    {NoTopicJson, [NoTopicJson EXCEPT !.kind = "text"],
     [kind |-> "json", id |-> "C", difficulty |-> DefaultDifficulty, missing |-> {}],
     [kind |-> "json", id |-> "C", difficulty |-> DefaultDifficulty, missing |-> {"domain"}]}

\* the parsed command line of `knowledge`
NoArgs(action) ==
    [action |-> action, topic |-> NoArg, target |-> NoArg, query |-> NoArg,
     prereq |-> NoArg, topic_json |-> NoTopicJson]

KnowledgeArgs ==
    {NoArgs("topics")}
        \cup {[NoArgs("prerequisites") EXCEPT !.topic = t] : t \in {NoArg, "A", "C"}}
        \cup {[NoArgs("path") EXCEPT !.target = t] : t \in {NoArg, "B", "C"}}
        \cup {[NoArgs("add-topic") EXCEPT !.topic_json = j] : j \in TopicJsons}
        \cup {[NoArgs("add-prereq") EXCEPT !.topic = e[1], !.prereq = e[2]] :
                e \in {<<NoArg, "A">>, <<"B", "A">>, <<"A", "B">>, <<"C", "B">>}}
        \cup {[NoArgs("search") EXCEPT !.query = q] : q \in {NoArg, "a"}}

\* knowledge_graph.json as the last command left it
GraphFile == result.value[2]

\* one run of `johny knowledge ...` over the state directory
Knowledge(args) ==
    /\ \E completed \in {{}, {"A"}}, ord \in DueOrders :
          LET out == CmdKnowledge(GraphFile, args, completed, ord, ord)
          IN  result' = [op |-> "knowledge", args |-> <<args>>, err |-> out.err,
                         value |-> <<out.ok, out.file>>]
    /\ UNCHANGED <<graphVars, sessionVars, masteryVars>>

InitCommands ==
    /\ topics = <<>>
    /\ prerequisites = EmptyMap
    /\ dependents = EmptyMap
    /\ \E file \in GraphFiles :
          result = [op |-> "init", args |-> <<>>, err |-> "none", value |-> <<TRUE, file>>]
    /\ records = EmptyStore
    /\ now = 0
    /\ held = NoSession
    /\ state_dir = EmptyStateDir

NextCommands == \E args \in KnowledgeArgs : Knowledge(args)

SpecCommands == InitCommands /\ [][NextCommands]_vars

(* -------------------------- review priority --------------------------- *)

\* the inputs of get_review_priority: retentions of [0, 1] with both ends,
\* importances 0.2 to 2.0, days overdue on both sides of the seventh day,
\* in steps the penalty in hundredths represents exactly
PriorityRetentions == {0, 250, 500, 850, 999, Scale}
PriorityImportances == {1, 5, 6, 7, 8, 9, 10}
PriorityOverdues == {0, 70, 3500, 6930, 7 * Scale, 7070, 14 * Scale}

GetReviewPriorityCall(retention, level_importance, days_overdue) ==
    /\ result' = [op |-> "get_review_priority",
                  args |-> <<retention, level_importance, days_overdue>>,
                  err |-> "none",
                  value |-> <<GetReviewPriority(retention, level_importance, days_overdue)>>]
    /\ UNCHANGED <<graphVars, sessionVars, masteryVars>>

NextPriority ==
    \E retention \in PriorityRetentions, level_importance \in PriorityImportances,
       days_overdue \in PriorityOverdues :
        GetReviewPriorityCall(retention, level_importance, days_overdue)

SpecPriority == Init /\ [][NextPriority]_vars

(* ----------------------------- needs_review --------------------------- *)

\* MasteryRecord.from_dict of a document that gives the level and the
\* instant of the last review
ReviewedRecord(level, last_review) ==
    [NewRecord EXCEPT !.level = level, !.last_review = last_review]

\* thresholds from just above 0 to 1, the default 0.7 among them
ReviewThresholds == {1, 700, DefaultTarget, Scale}

\* record.needs_review(threshold) on the record get_record hands out, with
\* the retention the record reports at the same instant
NeedsReviewCall(topic_id, threshold) ==
    /\ records' = WithRecord(records, topic_id)
    /\ result' = [op |-> "needs_review", args |-> <<topic_id, threshold>>, err |-> "none",
                  value |-> <<NeedsReview(RecordOf(records, topic_id), threshold, now),
                              GetRetention(RecordOf(records, topic_id), now)>>]
    /\ UNCHANGED <<graphVars, sessionVars, now>>

\* the store MasteryTracker.__init__ loads: no file, or a file with one
\* record of any level, never reviewed or reviewed at instant 0
InitNeedsReview ==
    /\ topics = <<>>
    /\ prerequisites = EmptyMap
    /\ dependents = EmptyMap
    /\ result = [op |-> "init", args |-> <<>>, err |-> "none", value |-> NoValue]
    /\ records \in {EmptyStore}
                     \cup {[k \in {"A"} |-> ReviewedRecord(l, t)] : l \in Levels, t \in {NoTime, 0}}
    /\ now = 0
    /\ held = NoSession
    /\ state_dir = EmptyStateDir

NextNeedsReview ==
    \/ \E score \in ReviewScores :
          PracticedLessThan("A", MaxReviews) /\ RecordPractice("A", score, 0)
    \/ \E threshold \in ReviewThresholds : NeedsReviewCall("A", threshold)
    \/ now < MaxTicks * HalfDay /\ Tick(HalfDay)

SpecNeedsReview == InitNeedsReview /\ [][NextNeedsReview]_vars

(* -------------------- mastery: the optimal review date ---------------- *)

\* last_review_dt.replace(hour=0, minute=0, second=0, microsecond=0)
Midnight(t) == t - (t % Day)

\* MasteryRecord.get_optimal_review_date; None is <<>>
GetOptimalReviewDate(rec, target_retention) ==
    IF rec.last_review = NoTime \/ rec.level = UNKNOWN THEN <<>>
    ELSE <<Midnight(rec.last_review) + (rec.stability * NegLog(target_retention)) \div Scale>>

\* record.get_optimal_review_date(target) on the record get_record hands out
GetOptimalReviewDateCall(topic_id, target_retention) ==
    /\ records' = WithRecord(records, topic_id)
    /\ result' = [op |-> "get_optimal_review_date", args |-> <<topic_id, target_retention>>,
                  err |-> "none",
                  value |-> GetOptimalReviewDate(RecordOf(records, topic_id), target_retention)]
    /\ UNCHANGED <<graphVars, sessionVars, now>>

\* the retention targets asked for
ReviewTargets == {500, 700, DefaultTarget, 950}

\* "A" is practised at midnight or at noon, with a failing or a passing score
NextOptimal ==
    \/ \E score \in ReviewScores :
          PracticedLessThan("A", MaxLongPractice) /\ RecordPractice("A", score, 0)
    \/ \E target_retention \in ReviewTargets : GetOptimalReviewDateCall("A", target_retention)
    \/ now < MaxTicks * HalfDay /\ Tick(HalfDay)

SpecOptimal == Init /\ [][NextOptimal]_vars

(* ------------------------- MasteryTracker._load ----------------------- *)

\* MasteryRecord.from_dict on one entry of the records list: `missing` tells
\* whether the entry lacks "topic_id", and MasteryLevel(level) refuses a
\* number that is no level
MasteryRecordFromDict(data) ==
    IF data.missing THEN [err |-> "KeyError", record |-> NewRecord]
    ELSE IF data.level \notin Levels THEN [err |-> "ValueError", record |-> NewRecord]
    ELSE [err |-> "none", record |-> LoadedRecord(data.level)]

\* the loop over data.get("records", []): an entry that fails ends the loop,
\* the records stored before it stay
RECURSIVE LoadRecords(_, _)
LoadRecords(recs, entries) ==
    IF entries = <<>> THEN recs
    ELSE LET r == MasteryRecordFromDict(Head(entries))
         IN  IF r.err # "none" THEN recs
             ELSE LoadRecords([k \in DOMAIN recs \cup {Head(entries).topic_id} |->
                                  IF k = Head(entries).topic_id THEN r.record ELSE recs[k]],
                              Tail(entries))

\* the forms of mastery.json: no file, a file that is not JSON, a document
NoStoreFile == [kind |-> "absent", records |-> <<>>]
UnparseableStoreFile == [kind |-> "text", records |-> <<>>]
StoreFile(entries) == [kind |-> "json", records |-> entries]

\* mutant: the failure of json.load is not caught
LoadUncaught(file) ==
    IF file.kind = "absent" THEN [err |-> "none", records |-> EmptyStore]
    ELSE IF file.kind = "text" THEN [err |-> "JSONDecodeError", records |-> EmptyStore]
    ELSE [err |-> "none", records |-> LoadRecords(EmptyStore, file.records)]

\* MasteryTracker._load on self.records = {}: `except Exception: pass`
\* covers json.load and the loop
Load(file) ==
    IF file.kind = "absent" THEN [err |-> "none", records |-> EmptyStore]
    ELSE IF file.kind = "text" THEN [err |-> "none", records |-> EmptyStore]
    ELSE [err |-> "none", records |-> LoadRecords(EmptyStore, file.records)]

\* the entries of the documents read: topics "A" and "B", levels Unknown,
\* Introduced and Proficient, a number that is no level, a missing topic_id
StoreEntries ==
    [topic_id : {"A", "B"}, level : {UNKNOWN, INTRODUCED, PROFICIENT, FLUENT + 1},
     missing : {FALSE}]
        \cup {[topic_id |-> "A", level |-> INTRODUCED, missing |-> TRUE]}

StoreFiles ==
    {NoStoreFile, UnparseableStoreFile}
        \cup {StoreFile(entries) : entries \in UNION {[1..n -> StoreEntries] : n \in 0..2}}

\* MasteryTracker(): a new store built over mastery.json
NewMasteryTracker(file) ==
    /\ records' = Load(file).records
    /\ result' = [op |-> "MasteryTracker", args |-> <<file>>, err |-> Load(file).err,
                  value |-> NoValue]
    /\ UNCHANGED <<graphVars, sessionVars, now>>

NextStore ==
    \/ \E file \in StoreFiles : NewMasteryTracker(file)
    \/ \E score \in ReviewScores :
          PracticedLessThan("A", MaxReviews) /\ RecordPractice("A", score, 0)

SpecStore == Init /\ [][NextStore]_vars

(* ------------------------- reads of the graph ------------------------- *)

\* mutant: the look-up is map[key] on the defaultdict, which stores an empty
\* set under a key it does not hold
AfterGetSubscript(map, key) == [k \in DOMAIN map \cup {key} |-> Get(map, k)]

\* the adjacency map as map.get(key, set()) leaves it
AfterGet(map, key) == map

\* the map after the look-ups of all of keys
RECURSIVE AfterGets(_, _)
AfterGets(map, keys) ==
    IF keys = {} THEN map
    ELSE LET key == CHOOSE k \in keys : TRUE
         IN  AfterGets(AfterGet(map, key), keys \ {key})

\* the graph after a query that looked up pre_keys in prerequisites and
\* dep_keys in dependents
AfterLookups(g, pre_keys, dep_keys) ==
    [g EXCEPT !.prerequisites = AfterGets(@, pre_keys),
              !.dependents = AfterGets(@, dep_keys)]

\* get_prerequisites and get_dependents: the topics of the ids stored, given
\* by their ids
GetPrerequisites(g, topic_id, ord) ==
    SelectSeq(Iter(Get(g.prerequisites, topic_id), ord),
              LAMBDA pid : pid \in Registered(g.topics))

GetDependents(g, topic_id, ord) ==
    SelectSeq(Iter(Get(g.dependents, topic_id), ord),
              LAMBDA did : did \in Registered(g.topics))

\* search_topics, a topic's name being its id and the description and the
\* tags empty: the topics whose name holds the query
SearchTopics(g, query) == SelectSeq(g.topics, LAMBDA topic : topic.id = query)

\* the keys get_all_prerequisites looks up in prerequisites: topic_id and
\* every id it takes off the queue for the first time
AllPrerequisitesKeys(g, topic_id, ord) ==
    {topic_id} \cup AllPrereqBfs(g.prerequisites,
                                 Iter(Get(g.prerequisites, topic_id), ord), {}, ord)

\* the keys get_learning_path looks up: none when it raises, else those of
\* get_all_prerequisites, then in _topological_sort the subset in
\* prerequisites and every topic emitted in dependents
LearningPathKeys(g, target_id, completed_ids, ord) ==
    IF target_id \notin Registered(g.topics) THEN [pre |-> {}, dep |-> {}]
    ELSE LET needed_ids == Range(GetAllPrerequisites(g, target_id, ord)) \cup {target_id}
             to_learn == needed_ids \ completed_ids
         IN  [pre |-> AllPrerequisitesKeys(g, target_id, ord) \cup to_learn,
              dep |-> Range(TopologicalSort(g, to_learn, ord))]

\* the keys get_fire_ancestors looks up after topic_id: every id of every
\* level the loop goes through
RECURSIVE FireKeys(_, _, _)
FireKeys(pre, depths_left, current_level) ==
    IF depths_left <= 0 \/ current_level = {} THEN {}
    ELSE current_level
            \cup FireKeys(pre, depths_left - 1,
                          UNION {Get(pre, prereq_id) : prereq_id \in current_level})

\* a read query: the value it returns and the graph its look-ups leave
Read(op, args, err, value, pre_keys, dep_keys) ==
    /\ SetGraph(AfterLookups(Graph, pre_keys, dep_keys))
    /\ result' = [op |-> op, args |-> args, err |-> err, value |-> value]
    /\ UNCHANGED masteryVars

GetPrerequisitesRead(topic_id) ==
    \E ord \in DueOrders :
        Read("get_prerequisites", <<topic_id>>, "none",
             GetPrerequisites(Graph, topic_id, ord), {topic_id}, {})

GetDependentsRead(topic_id) ==
    \E ord \in DueOrders :
        Read("get_dependents", <<topic_id>>, "none",
             GetDependents(Graph, topic_id, ord), {}, {topic_id})

GetAllPrerequisitesRead(topic_id) ==
    \E ord \in DueOrders :
        Read("get_all_prerequisites", <<topic_id>>, "none",
             GetAllPrerequisites(Graph, topic_id, ord),
             AllPrerequisitesKeys(Graph, topic_id, ord), {})

GetLearningPathRead(target_id, completed_ids) ==
    \E ord \in DueOrders :
        LET r == GetLearningPath(Graph, target_id, completed_ids, ord)
            keys == LearningPathKeys(Graph, target_id, completed_ids, ord)
        IN  Read("get_learning_path", <<target_id, completed_ids>>, r.err, r.value,
                 keys.pre, keys.dep)

GetAvailableTopicsRead(completed_ids) ==
    Read("get_available_topics", <<completed_ids>>, "none",
         GetAvailableTopics(Graph, completed_ids),
         Registered(topics) \ completed_ids, {})

SearchTopicsRead(query) ==
    Read("search_topics", <<query>>, "none", SearchTopics(Graph, query), {}, {})

GetFireAncestorsRead(topic_id, max_depth) ==
    Read("get_fire_ancestors", <<topic_id, max_depth>>, "none",
         GetFireAncestors(Graph, topic_id, max_depth),
         {topic_id} \cup FireKeys(prerequisites, max_depth, Get(prerequisites, topic_id)),
         {})

ToDictRead ==
    \E ord \in DueOrders :
        Read("to_dict", <<>>, "none", <<ToDict(Graph, ord, ord)>>, {}, {})

NextReads ==
    \/ \E id \in TopicIds : AddTopic(id, DefaultDifficulty)
    \/ \E t, p \in TopicIds : AddPrerequisite(t, p)
    \/ \E t \in TopicIds : GetPrerequisitesRead(t)
    \/ \E t \in TopicIds : GetDependentsRead(t)
    \/ \E t \in TopicIds : GetAllPrerequisitesRead(t)
    \/ \E t \in TopicIds, completed \in {{}, {"A"}} : GetLearningPathRead(t, completed)
    \/ \E completed \in {{}, {"A"}} : GetAvailableTopicsRead(completed)
    \/ \E query \in TopicIds : SearchTopicsRead(query)
    \/ \E t \in TopicIds, d \in 0..MaxDepthArg : GetFireAncestorsRead(t, d)
    \/ ToDictRead

SpecReads == Init /\ [][NextReads]_vars

(* ------------------------------ StudySession -------------------------- *)

\* SessionStatus
ACTIVE == "active"
PAUSED == "paused"
COMPLETED == "completed"
ABANDONED == "abandoned"

\* StudySession(session_id=..., domain=..., planned_minutes=...) built at
\* instant t: the dataclass defaults
NewSession(session_id, t) ==
    [session_id |-> session_id, status |-> ACTIVE, started_at |-> t,
     ended_at |-> NoTime, paused_at |-> NoTime, total_paused_seconds |-> 0,
     tasks |-> <<>>, tasks_completed |-> 0, tasks_skipped |-> 0, total_score |-> 0]

\* (b - a).total_seconds() in tenths of a second, the clock counting
\* thousandths of a day (86.4 seconds)
TotalSeconds(a, b) == (b - a) * 864

\* get_elapsed_minutes, in tenths of a second (600 to the minute)
GetElapsedMinutes(session, t) ==
    LET end == IF session.ended_at # NoTime THEN session.ended_at
               ELSE IF session.paused_at # NoTime THEN session.paused_at
               ELSE t
    IN  Max(0, TotalSeconds(session.started_at, end) - session.total_paused_seconds * 10)

\* mutant: a session is paused whatever its status
PauseOpAnyStatus(session, t) ==
    [session EXCEPT !.status = PAUSED, !.paused_at = t]

\* StudySession.pause
PauseOp(session, t) ==
    IF session.status = ACTIVE
    THEN [session EXCEPT !.status = PAUSED, !.paused_at = t]
    ELSE session

\* StudySession.resume: int() drops the fraction of a second
ResumeOp(session, t) ==
    IF session.status = PAUSED /\ session.paused_at # NoTime
    THEN [session EXCEPT
            !.total_paused_seconds = @ + (TotalSeconds(session.paused_at, t) \div 10),
            !.paused_at = NoTime,
            !.status = ACTIVE]
    ELSE session

\* StudySession.end
EndOp(session, status, t) == [session EXCEPT !.status = status, !.ended_at = t]

\* a call on the session object in `held`
OnSession(op, args, session) ==
    /\ held # NoSession
    /\ held' = <<session>>
    /\ result' = [op |-> op, args |-> args, err |-> "none", value |-> NoValue]
    /\ UNCHANGED <<graphVars, masteryVars, state_dir>>

Pause == held # NoSession /\ OnSession("pause", <<>>, PauseOp(held[1], now))

Resume == held # NoSession /\ OnSession("resume", <<>>, ResumeOp(held[1], now))

End(status) == held # NoSession /\ OnSession("end", <<status>>, EndOp(held[1], status, now))

\* the state after StudySession(...) at instant 0
InitSession ==
    /\ topics = <<>>
    /\ prerequisites = EmptyMap
    /\ dependents = EmptyMap
    /\ result = [op |-> "init", args |-> <<>>, err |-> "none", value |-> NoValue]
    /\ records = EmptyStore
    /\ now = 0
    /\ held = <<NewSession(1, 0)>>
    /\ state_dir = EmptyStateDir

\* the clock moves by 86.4 seconds or by 432 seconds
SessionTicks == {1, 5}

NextSession ==
    \/ Pause
    \/ Resume
    \/ \E status \in {COMPLETED, ABANDONED} : End(status)
    \/ \E days \in SessionTicks : now + days <= MaxSessionTime /\ Tick(days)

SpecSession == InitSession /\ [][NextSession]_vars

(* --------------------------- tasks of a session ----------------------- *)

\* score is None until the task is completed
NoScore == -1

\* add_task: the new task, its id (drawn by uuid4 in the code) being the next
\* number
AddTaskOp(session, task_id) ==
    [session EXCEPT !.tasks = Append(@, [task_id |-> task_id, started_at |-> NoTime,
                                         completed_at |-> NoTime, score |-> NoScore,
                                         skipped |-> FALSE])]

\* the index of the first task of that id, 0 when there is none
TaskIndex(session, task_id) ==
    IF \E i \in 1..Len(session.tasks) : session.tasks[i].task_id = task_id
    THEN CHOOSE i \in 1..Len(session.tasks) :
            /\ session.tasks[i].task_id = task_id
            /\ \A j \in 1..(i - 1) : session.tasks[j].task_id # task_id
    ELSE 0

\* start_task
StartTaskOp(session, task_id, t) ==
    LET i == TaskIndex(session, task_id)
    IN  IF i = 0 THEN session ELSE [session EXCEPT !.tasks[i].started_at = t]

\* complete_task
CompleteTaskOp(session, task_id, score, t) ==
    LET i == TaskIndex(session, task_id)
    IN  IF i = 0 THEN session
        ELSE [session EXCEPT !.tasks[i].completed_at = t,
                             !.tasks[i].score = score,
                             !.tasks_completed = @ + 1,
                             !.total_score = @ + score]

\* skip_task
SkipTaskOp(session, task_id) ==
    LET i == TaskIndex(session, task_id)
    IN  IF i = 0 THEN session
        ELSE [session EXCEPT !.tasks[i].skipped = TRUE, !.tasks_skipped = @ + 1]

\* get_average_score, in the unit of the scores
GetAverageScore(session) ==
    IF session.tasks_completed = 0 THEN 0
    ELSE session.total_score \div session.tasks_completed

AddTask ==
    /\ held # NoSession
    /\ Len(held[1].tasks) < MaxTasks
    /\ OnSession("add_task", <<>>, AddTaskOp(held[1], Len(held[1].tasks) + 1))

StartTask(task_id) ==
    held # NoSession /\ OnSession("start_task", <<task_id>>, StartTaskOp(held[1], task_id, now))

\* complete_task and skip_task are followed for MaxTaskCalls counted calls
CompleteTask(task_id, score) ==
    /\ held # NoSession
    /\ held[1].tasks_completed + held[1].tasks_skipped < MaxTaskCalls
    /\ OnSession("complete_task", <<task_id, score>>,
                 CompleteTaskOp(held[1], task_id, score, now))

SkipTask(task_id) ==
    /\ held # NoSession
    /\ held[1].tasks_completed + held[1].tasks_skipped < MaxTaskCalls
    /\ OnSession("skip_task", <<task_id>>, SkipTaskOp(held[1], task_id))

\* the ids named in the calls: those of the tasks and one no task has
TaskIds == 1..(MaxTasks + 1)

TaskScores == {Pct(50), Pct(100)}

NextTasks ==
    \/ AddTask
    \/ \E task_id \in TaskIds : StartTask(task_id)
    \/ \E task_id \in TaskIds, score \in TaskScores : CompleteTask(task_id, score)
    \/ \E task_id \in TaskIds : SkipTask(task_id)

SpecTasks == InitSession /\ [][NextTasks]_vars

(* ----------------------------- SessionManager ------------------------- *)

\* StudySession.to_dict: the fields and the derived figures of the moment
SessionToDict(session, t) ==
    [session_id |-> session.session_id, status |-> session.status,
     started_at |-> session.started_at, ended_at |-> session.ended_at,
     paused_at |-> session.paused_at,
     total_paused_seconds |-> session.total_paused_seconds,
     tasks |-> session.tasks, tasks_completed |-> session.tasks_completed,
     tasks_skipped |-> session.tasks_skipped, total_score |-> session.total_score,
     elapsed_minutes |-> GetElapsedMinutes(session, t),
     average_score |-> GetAverageScore(session)]

\* StudySession.from_dict: the derived figures are not read back
SessionFromDict(data) ==
    [session_id |-> data.session_id, status |-> data.status,
     started_at |-> data.started_at, ended_at |-> data.ended_at,
     paused_at |-> data.paused_at,
     total_paused_seconds |-> data.total_paused_seconds,
     tasks |-> data.tasks, tasks_completed |-> data.tasks_completed,
     tasks_skipped |-> data.tasks_skipped, total_score |-> data.total_score]

\* _save_session: <session_id>.json always, active.json only for an ACTIVE
\* session, removed otherwise. The file of session n is sessions[n].
SaveSession(dir, session, t) ==
    LET data == SessionToDict(session, t)
    IN  [active   |-> IF session.status = ACTIVE THEN <<data>> ELSE <<>>,
         sessions |-> IF session.session_id \in 1..Len(dir.sessions)
                      THEN [dir.sessions EXCEPT ![session.session_id] = data]
                      ELSE Append(dir.sessions, data)]

\* _load_active_session
LoadActiveSession(dir) ==
    IF dir.active = <<>> THEN NoSession
    ELSE LET session == SessionFromDict(dir.active[1])
         IN  IF session.status = ACTIVE THEN <<session>> ELSE NoSession

\* SessionManager.__init__ of the next command on the same state directory
NewManager ==
    /\ held' = LoadActiveSession(state_dir)
    /\ result' = [op |-> "new_manager", args |-> <<>>, err |-> "none", value |-> NoValue]
    /\ UNCHANGED <<graphVars, masteryVars, state_dir>>

\* mutant: the session held is dropped without being ended
AbandonedKeepsHeld(dir, session, t) == dir

\* the state directory after start_session has ended the session held
AbandonHeld(dir, session, t) == SaveSession(dir, EndOp(session, ABANDONED, t), t)

\* start_session; the uuid4 id is the number of the session file
StartSession ==
    /\ Len(state_dir.sessions) < MaxSessions
    /\ LET dir     == IF held # NoSession THEN AbandonHeld(state_dir, held[1], now)
                      ELSE state_dir
           session == NewSession(Len(dir.sessions) + 1, now)
       IN  /\ held' = <<session>>
           /\ state_dir' = SaveSession(dir, session, now)
           /\ result' = [op |-> "start_session", args |-> <<>>, err |-> "none",
                         value |-> <<session.session_id>>]
    /\ UNCHANGED <<graphVars, masteryVars>>

\* end_session; session_id is <<>> for None
EndSession(session_id) ==
    /\ result' = [op |-> "end_session", args |-> session_id, err |-> "none",
                  value |-> IF held # NoSession
                               /\ (session_id = <<>> \/ held[1].session_id = session_id[1])
                            THEN <<held[1].session_id>> ELSE NoValue]
    /\ IF held # NoSession /\ (session_id = <<>> \/ held[1].session_id = session_id[1])
       THEN /\ state_dir' = SaveSession(state_dir, EndOp(held[1], COMPLETED, now), now)
            /\ held' = NoSession
       ELSE UNCHANGED sessionVars
    /\ UNCHANGED <<graphVars, masteryVars>>

\* pause_session and resume_session
OnHeld(op, session) ==
    /\ result' = [op |-> op, args |-> <<>>, err |-> "none",
                  value |-> IF held # NoSession THEN <<held[1].session_id>> ELSE NoValue]
    /\ IF held # NoSession
       THEN /\ held' = <<session>>
            /\ state_dir' = SaveSession(state_dir, session, now)
       ELSE UNCHANGED sessionVars
    /\ UNCHANGED <<graphVars, masteryVars>>

PauseSession ==
    OnHeld("pause_session", IF held # NoSession THEN PauseOp(held[1], now) ELSE NoSession)

ResumeSession ==
    OnHeld("resume_session", IF held # NoSession THEN ResumeOp(held[1], now) ELSE NoSession)

InitManager ==
    /\ topics = <<>>
    /\ prerequisites = EmptyMap
    /\ dependents = EmptyMap
    /\ result = [op |-> "init", args |-> <<>>, err |-> "none", value |-> NoValue]
    /\ records = EmptyStore
    /\ now = 0
    /\ held = NoSession
    /\ state_dir = EmptyStateDir

SessionIdArgs == {<<>>} \cup {<<n>> : n \in 1..MaxSessions}

NextManager ==
    \/ NewManager
    \/ StartSession
    \/ \E session_id \in SessionIdArgs : EndSession(session_id)
    \/ PauseSession
    \/ ResumeSession
    \/ now + 5 <= MaxSessionTime /\ Tick(5)

SpecManager == InitManager /\ [][NextManager]_vars

(* ================== properties of the memory stability ================ *)

\* the step is a practice of a record, direct or through a review
IsPracticeOrReviewStep == result'.op \in {"record_practice", "complete_review"}

\* C15: from a fresh store, after any record_practice, apply_fire_credit and
\* complete_review calls every record's stability lies in [0.5, 10.0]; a
\* practice with a score of at least 0.7 never lowers the stability of the
\* practised record, one with a score below 0.4 never raises it, and a
\* record_practice with a score in [0.4, 0.7) leaves it as it was.
C15_StabilityBounded ==
    /\ [](\A k \in DOMAIN records :
            MinStability <= records[k].stability /\ records[k].stability <= MaxStability)
    /\ [][IsPracticeOrReviewStep =>
            LET topic_id == result'.args[1]
                score == result'.args[2]
                before == RecordOf(records, topic_id).stability
                after == records'[topic_id].stability
            IN  /\ score >= Pct(70) => after >= before
                /\ score < Pct(40) => after <= before
                /\ (result'.op = "record_practice" /\ score >= Pct(40) /\ score < Pct(70))
                      => after = before]_vars

\* a practice with a high score has left the stability at the upper limit
C15_Witness ==
    /\ result.op = "record_practice"
    /\ result.args[2] >= Pct(70)
    /\ records["A"].stability = MaxStability

\* a practice with a low score has left the stability at the lower limit
C15_FloorReached ==
    /\ result.op = "record_practice"
    /\ result.args[2] < Pct(40)
    /\ records["A"].stability = MinStability

(* ===================== properties of the history ====================== *)

\* C16: after n record_practice calls on a record its history holds the
\* min(n, 50) most recent events, oldest first, and practice_count is n.
\* The calls are made one a day from day 0, so the call number i is the one
\* stamped (i - 1) days and n is read off the clock: the calls of the days
\* before today, and today's once it has been made.
C16_HistoryKeepsNewest ==
    LET rec == RecordOf(records, "A")
        n == now \div Day + (IF JustPractised("A") THEN 1 ELSE 0)
        kept == Min(n, HistoryLimit)
    IN  /\ rec.practice_count = n
        /\ Len(rec.history) = kept
        /\ \A i \in 1..Len(rec.history) :
              /\ rec.history[i].timestamp = (n - kept + i - 1) * Day
              /\ result.op = "record_practice" => rec.history[i].score = result.args[2]

\* two events more than the history holds have been recorded
C16_Witness ==
    /\ result.op = "record_practice"
    /\ records["A"].practice_count = HistoryLimit + 2
    /\ Len(records["A"].history) = HistoryLimit
    /\ records["A"].history[1].timestamp = 2 * Day

(* ==================== properties of the FIRe credit =================== *)

\* the step is a call of apply_fire_credit, not the clock moving on after one
IsFireStep == result'.op = "apply_fire_credit" /\ now' = now

\* C17: apply_fire_credit never changes the level, practice count, total
\* time, average score, last-practised stamp or history of any record; a
\* record it creates has the values of a fresh one.
C17_FireKeepsPracticeData ==
    [][IsFireStep =>
        \A k \in DOMAIN records' :
            LET before == RecordOf(records, k)
                after == records'[k]
            IN  /\ after.level = before.level
                /\ after.practice_count = before.practice_count
                /\ after.total_time_seconds = before.total_time_seconds
                /\ after.average_score = before.average_score
                /\ after.last_practiced = before.last_practiced
                /\ after.history = before.history]_vars

\* a credit has refreshed a record that was practised on an earlier day
C17_Witness ==
    /\ result.op = "apply_fire_credit"
    /\ "B" \in DOMAIN records
    /\ records["B"].last_review = now
    /\ records["B"].last_practiced < now
    /\ records["B"].level # UNKNOWN

\* the factor 1 + 0.1 * weight applied to a stability, capped at 10.0
Credited(stability, weight) ==
    Min(10 * Scale, (stability * (10 * FireScale + weight)) \div (10 * FireScale))

\* C18: apply_fire_credit(weights, baseScore) multiplies the stability by
\* 1 + 0.1 * weight (capped at 10.0) and sets last_review to the present for
\* exactly the ids in weights with baseScore * weight >= 0.3 whose record has
\* a last_review, and leaves every other record as it was; a never-reviewed
\* ancestor keeps its last_review unset.
C18_FireCreditsReviewedAncestors ==
    [][IsFireStep =>
        LET fire_weights == result'.args[2]
            base_score == result'.args[3]
        IN  /\ DOMAIN records \subseteq DOMAIN records'
            /\ \A k \in DOMAIN records' :
                  LET before == RecordOf(records, k)
                      after == records'[k]
                  IN  IF /\ k \in DOMAIN fire_weights
                         /\ base_score * fire_weights[k] * 10 >= 3 * ScoreScale * FireScale
                         /\ before.last_review # NoTime
                      THEN /\ after.stability = Credited(before.stability, fire_weights[k])
                           /\ after.last_review = now
                      ELSE after = before]_vars

\* one call has credited a reviewed ancestor and passed over a never-reviewed
\* one that met the score test
C18_Witness ==
    /\ result.op = "apply_fire_credit"
    /\ DOMAIN result.args[2] = {"B", "C"}
    /\ {"B", "C"} \subseteq DOMAIN records
    /\ records["B"].last_review = now
    /\ records["B"].last_practiced < now
    /\ records["B"].stability > Scale
    /\ records["C"].last_review = NoTime

(* ===================== properties of the reviews ====================== *)

\* the step is a call of get_due_reviews
IsDueStep == result'.op = "get_due_reviews" /\ now' = now

\* the retention of a record at the present instant, 0 if never reviewed
RetentionNow(k) ==
    IF records[k].last_review = NoTime THEN 0
    ELSE CalculateRetention(now - records[k].last_review, records[k].stability)

\* the records a call with this threshold has to consider
Qualifying(threshold) ==
    {k \in DOMAIN records : records[k].level # UNKNOWN /\ RetentionNow(k) < threshold}

\* C19: get_due_reviews(limit, threshold) returns only records that are not
\* Unknown and whose retention is strictly below the threshold, in
\* non-increasing order of priority, at most limit of them, and those it
\* returns are the highest-priority ones of all the qualifying records.
C19_DueReviewsRanked ==
    [][IsDueStep =>
        LET limit == result'.args[1]
            threshold == result'.args[2]
            items == result'.value
            returned == {items[i].topic_id : i \in 1..Len(items)}
        IN  /\ returned \subseteq Qualifying(threshold)
            /\ \A i \in 1..Len(items) :
                  /\ items[i].retention = RetentionNow(items[i].topic_id)
                  /\ items[i].retention < threshold
                  /\ items[i].mastery_level # UNKNOWN
            /\ Cardinality(returned) = Len(items)
            /\ \A i, j \in 1..Len(items) : i < j => items[i].priority >= items[j].priority
            /\ Len(items) <= limit
            /\ Len(items) = Min(limit, Cardinality(Qualifying(threshold)))
            /\ \A k \in Qualifying(threshold) \ returned : \A i \in 1..Len(items) :
                  items[i].priority >=
                      ReviewItemOf(k, records[k], threshold, now).priority]_vars

\* with limit 1 the call has returned "B" and left out "A", which qualifies
\* with a lower priority and comes first in some order of the records; "C" is
\* Unknown and left out too
C19_Witness ==
    /\ result.op = "get_due_reviews"
    /\ result.args[1] = 1
    /\ Len(result.value) = 1
    /\ result.value[1].topic_id = "B"
    /\ {"A", "B", "C"} \subseteq DOMAIN records
    /\ "A" \in Qualifying(result.args[2])
    /\ ReviewItemOf("A", records["A"], result.args[2], now).priority
          < result.value[1].priority
    /\ records["C"].level = UNKNOWN

\* the step is a call of complete_review
IsReviewStep == result'.op = "complete_review" /\ now' = now

\* C20: complete_review reports as retention-at-review the retention of the
\* record before the practice is recorded (0 for a record never reviewed),
\* and as new level, new stability and next review date those of the record
\* after the practice (and the credit) have been recorded.
C20_ReviewReportsBeforeAndAfter ==
    [][IsReviewStep =>
        LET topic_id == result'.args[1]
            report == result'.value[1]
            before == RecordOf(records, topic_id)
            after == records'[topic_id]
        IN  /\ report.retention_at_review =
                  (IF before.last_review = NoTime THEN 0
                   ELSE CalculateRetention(now - before.last_review, before.stability))
            /\ report.new_level = after.level
            /\ report.new_stability = Round2(after.stability)
            /\ report.next_review_date =
                  now + Max(MinimumInterval, Min(MaximumInterval,
                              (after.stability * NegLog(DefaultTarget)) \div Scale))
            /\ after.last_review = now
            /\ after.practice_count = before.practice_count + 1]_vars

\* a second review of a record, half forgotten by then, has raised its level
\* and its stability
C20_Witness ==
    /\ result.op = "complete_review"
    /\ "A" \in DOMAIN records
    /\ records["A"].practice_count = 2
    /\ result.value[1].retention_at_review > 0
    /\ result.value[1].retention_at_review < Scale
    /\ result.value[1].new_level = DEVELOPING
    /\ result.value[1].new_stability > Scale \div 10

\* C21: complete_review called with a score below 0.5, or with no or empty
\* fire weights, changes no record but the one of its topic: every other
\* record is as it was and no other record appears or disappears.
C21_ReviewWithoutCreditFrame ==
    [][(/\ IsReviewStep
        /\ (result'.args[2] < Pct(50) \/ DOMAIN result'.args[3] = {}))
       => \A k \in (DOMAIN records \cup DOMAIN records') \ {result'.args[1]} :
             /\ k \in DOMAIN records
             /\ k \in DOMAIN records'
             /\ records'[k] = records[k]]_vars

\* a review with a score below 0.5 named a reviewed record and an absent one
\* as ancestors, with weights large enough for the credit, and left both
C21_Witness ==
    /\ result.op = "complete_review"
    /\ result.args[1] = "A"
    /\ result.args[2] < Pct(50)
    /\ DOMAIN result.args[3] = {"B", "C"}
    /\ result.args[2] * result.args[3]["B"] * 10 >= 3 * ScoreScale * FireScale
    /\ DOMAIN records = {"A", "B"}
    /\ records["A"].last_review = now
    /\ records["B"].last_review # NoTime
    /\ records["B"].last_review < now

\* the complete due list at threshold 0.85, in priority order
CompleteDueList ==
    GetDueReviews(records, Cardinality(DOMAIN records), DefaultTarget, now,
                  FileOrder(records))

\* C22: for N records due at threshold 0.85 and positive availableMinutes
\* and avgReviewMinutes, optimize_schedule returns exactly the first
\* min(N, floor(availableMinutes / avgReviewMinutes)) items of the complete
\* priority-ordered due list, in the same order.
C22_ScheduleCutsOnlyByTime ==
    result.op = "optimize_schedule" =>
        LET N == Cardinality(Qualifying(DefaultTarget))
            fit == (result.args[1] * 10) \div result.args[2]
        IN  result.value = SubSeq(CompleteDueList, 1, Min(N, fit))

(* ===================== properties of the snapshots ==================== *)

\* C23: for every graph built by add_topic and add_prerequisite,
\* from_dict(to_dict(graph)) has the same topic table, the same prerequisites
\* map and the same dependents map as the graph: no edge is dropped and none
\* is added.
C23_RoundTrip ==
    result.op = "from_dict(to_dict)" =>
        /\ result.value[1].topics = topics
        /\ result.value[1].prerequisites = prerequisites
        /\ result.value[1].dependents = dependents

\* the chain A, B, C with the shortcut from A to C has made the round trip,
\* the topics having been registered in another order than A, B, C
C23_Witness ==
    /\ result.op = "from_dict(to_dict)"
    /\ Registered(topics) = {"A", "B", "C"}
    /\ topics[1].id = "C"
    /\ prerequisites = [k \in {"B", "C"} |-> IF k = "B" THEN {"A"} ELSE {"A", "B"}]

\* the pairs of the "prerequisites" field of the snapshot last loaded
SnapshotEdges == Range(result.args[1].prerequisites)

\* C24: from_dict applied to a snapshot with arbitrary edges (unregistered
\* endpoints, self-edges, cycles) never aborts: it skips each edge that fails
\* validation and loads the rest, and the graph it returns is acyclic, has
\* only registered endpoints and has dependents the inverse of prerequisites.
\* An edge of the snapshot is missing from the graph only if an endpoint is
\* unregistered or the edge would close a cycle in the graph.
C24_LoadSkipsBadEdges ==
    result.op = "from_dict" =>
        /\ result.err = "none"
        /\ Registered(topics) = {result.args[1].topics[i].id :
                                    i \in 1..Len(result.args[1].topics)}
        /\ \A t \in TopicIds : t \notin Reach(prerequisites, t)
        /\ \A t \in DOMAIN prerequisites :
              t \in Registered(topics) /\ prerequisites[t] \subseteq Registered(topics)
        /\ \A t, p \in TopicIds :
              p \in Get(prerequisites, t) <=> t \in Get(dependents, p)
        /\ \A t \in DOMAIN prerequisites : \A p \in prerequisites[t] :
              <<t, p>> \in SnapshotEdges
        /\ \A e \in SnapshotEdges :
              \/ e[2] \in Get(prerequisites, e[1])
              \/ e[1] \notin Registered(topics)
              \/ e[2] \notin Registered(topics)
              \/ e[1] = e[2]
              \/ e[1] \in Reach(prerequisites, e[2])

\* a snapshot whose first edge names an unregistered topic and whose second
\* edge is sound has been loaded, the second edge being kept
C24_Witness ==
    /\ result.op = "from_dict"
    /\ Len(result.args[1].prerequisites) = 2
    /\ result.args[1].prerequisites[1][2] \notin Registered(topics)
    /\ result.args[1].prerequisites[2] = <<"B", "A">>
    /\ prerequisites = [k \in {"B"} |-> {"A"}]
    /\ dependents = [k \in {"A"} |-> {"B"}]

\* a snapshot whose two edges make a cycle has been loaded, the first edge
\* being kept and the second skipped
C24_CycleSkipped ==
    /\ result.op = "from_dict"
    /\ result.args[1].prerequisites = << <<"A", "B">>, <<"B", "A">> >>
    /\ prerequisites = [k \in {"A"} |-> {"B"}]

(* ================= properties of the command surface ================== *)

\* C25: every operation of the command surface returns a success or a
\* failure envelope and lets no exception escape, also when the persisted
\* graph snapshot cannot be parsed or holds a topic with missing required
\* fields, and when a topic id is unregistered.
C25_AlwaysAnEnvelope == result.op = "knowledge" => result.err = "none"

(* ================== properties of the review priority ================= *)

\* the priority of the call in `result` moves as stated when one input is
\* replaced by another of the grid: up when retention drops, up when the
\* importance rises, up when the days overdue grow from below 7 days, and
\* not at all when they grow from 7 days on
PriorityMovesStrictly ==
    LET retention == result.args[1]
        level_importance == result.args[2]
        days_overdue == result.args[3]
        priority == result.value[1]
    IN  /\ \A r \in PriorityRetentions :
              r < retention =>
                  GetReviewPriority(r, level_importance, days_overdue) > priority
        /\ \A l \in PriorityImportances :
              l > level_importance =>
                  GetReviewPriority(retention, l, days_overdue) > priority
        /\ \A d \in PriorityOverdues :
              d > days_overdue =>
                  IF days_overdue < 7 * Scale
                  THEN GetReviewPriority(retention, level_importance, d) > priority
                  ELSE GetReviewPriority(retention, level_importance, d) = priority

\* C26 as stated: the priority is strictly monotonic in each input for every
\* retention in [0, 1], every positive importance and every days overdue
C26_PriorityStrictlyMonotone ==
    result.op = "get_review_priority" => PriorityMovesStrictly

\* C26: the priority strictly increases when retention drops, for every
\* retention in [0, 1]; it strictly increases when the importance rises and
\* when the days overdue grow up to 7 days (constant after) for every
\* retention below 1; at retention 1 the priority is 0 whatever the
\* importance and the days overdue.
C26_PriorityMonotoneBelowFullRetention ==
    result.op = "get_review_priority" =>
        /\ result.args[1] < Scale => PriorityMovesStrictly
        /\ \A r \in PriorityRetentions :
              r < result.args[1] =>
                  GetReviewPriority(r, result.args[2], result.args[3]) > result.value[1]
        /\ result.args[1] = Scale => result.value[1] = 0

\* a call just below full retention and just below the seventh day overdue
C26_Witness ==
    /\ result.op = "get_review_priority"
    /\ result.args = <<999, 1, 6930>>
    /\ result.value[1] > 0

(* ================== properties of the cycle rejection ================= *)

\* C27 as stated: add_prerequisite(topicId, prereqId) is refused with the
\* cycle error whenever prereqId is already a direct or transitive
\* prerequisite of topicId
C27_RejectsKnownPrerequisite ==
    [][(/\ result'.op = "add_prerequisite"
        /\ {result'.args[1], result'.args[2]} \subseteq Registered(topics)
        /\ result'.args[2] \in Reach(prerequisites, result'.args[1]))
       => result'.err = "Cycle"]_vars

\* C27: add_prerequisite(topicId, prereqId) is refused with the cycle error
\* whenever topicId is prereqId or is already a direct or transitive
\* prerequisite of prereqId (prereqId is reachable from topicId by following
\* dependents edges); a prereqId that is already a direct or transitive
\* prerequisite of topicId is accepted.
C27_RejectsKnownDependent ==
    [][(/\ result'.op = "add_prerequisite"
        /\ {result'.args[1], result'.args[2]} \subseteq Registered(topics))
       => LET t == result'.args[1]
              p == result'.args[2]
          IN  /\ (t = p \/ t \in Reach(prerequisites, p)) => result'.err = "Cycle"
              /\ p \in Reach(prerequisites, t) => result'.err = "none"]_vars

\* an edge has been refused whose topic is a prerequisite of its prereq both
\* directly and through a third topic
C27_Witness ==
    /\ result.op = "add_prerequisite" /\ result.err = "Cycle"
    /\ result.args[1] \in Get(prerequisites, result.args[2])
    /\ \E m \in TopicIds :
          /\ m \in Get(prerequisites, result.args[2])
          /\ result.args[1] \in Get(prerequisites, m)

(* ===================== properties of needs_review ===================== *)

\* C28: needs_review(threshold) is false whenever the level is Unknown,
\* whatever the retention, and otherwise equals (retention < threshold);
\* get_retention is 0 for a record never reviewed, so a record of a level
\* above Unknown without a last-review instant needs review for every
\* threshold above 0.
C28_NeedsReview ==
    result.op = "needs_review" =>
        LET rec == records[result.args[1]]
            threshold == result.args[2]
            needs == result.value[1]
            retention == result.value[2]
        IN  /\ rec.level = UNKNOWN => ~needs
            /\ rec.level # UNKNOWN => (needs <=> retention < threshold)
            /\ rec.last_review = NoTime => retention = 0
            /\ (rec.level # UNKNOWN /\ rec.last_review = NoTime /\ threshold > 0) => needs

\* a record of level Unknown whose retention is below the threshold asked
\* for has been reported as not needing review
C28_Witness ==
    /\ result.op = "needs_review"
    /\ records["A"].level = UNKNOWN
    /\ records["A"].last_review # NoTime
    /\ result.value[2] < result.args[2]
    /\ result.value[1] = FALSE

\* a record above Unknown that was never reviewed has been reported as
\* needing review at the smallest threshold
C28_NeverReviewed ==
    /\ result.op = "needs_review"
    /\ records["A"].level # UNKNOWN
    /\ records["A"].last_review = NoTime
    /\ result.args[2] = 1
    /\ result.value = <<TRUE, 0>>

(* ================== properties of the store's loading ================= *)

\* C29: constructing the mastery store over a persisted file that cannot be
\* parsed at all never fails and yields a store with no records.
C29_UnparseableStoreIsEmpty ==
    (result.op = "MasteryTracker" /\ result.args[1].kind = "text") =>
        /\ result.err = "none"
        /\ DOMAIN records = {}

\* a store has been built over a file that is not JSON
C29_Witness ==
    /\ result.op = "MasteryTracker"
    /\ result.args[1] = UnparseableStoreFile
    /\ records = EmptyStore

\* a document whose second entry fails leaves the first entry in the store
C29_PartialLoad ==
    /\ result.op = "MasteryTracker"
    /\ result.args[1].kind = "json"
    /\ Len(result.args[1].records) = 2
    /\ result.args[1].records[2].missing
    /\ DOMAIN records = {result.args[1].records[1].topic_id}

(* ======================= properties of the reads ====================== *)

ReadQueries ==
    {"get_prerequisites", "get_dependents", "get_all_prerequisites", "get_learning_path",
     "get_available_topics", "search_topics", "get_fire_ancestors", "to_dict"}

\* C30: no read query of the graph changes the topic table, the
\* prerequisites map or the dependents map, for registered and unregistered
\* ids alike: reading creates no empty adjacency entry.
C30_ReadsChangeNothing ==
    [][result'.op \in ReadQueries =>
          /\ GraphUnchanged
          /\ DOMAIN prerequisites' = DOMAIN prerequisites
          /\ DOMAIN dependents' = DOMAIN dependents
          /\ \A k \in DOMAIN prerequisites' : prerequisites'[k] # {}
          /\ \A k \in DOMAIN dependents' : dependents'[k] # {}]_vars

\* the prerequisites of an id that is not registered and has no adjacency
\* entry have been asked for in a graph that holds an edge
C30_Witness ==
    /\ result.op \in {"get_prerequisites", "get_all_prerequisites", "get_fire_ancestors"}
    /\ result.args[1] \notin Registered(topics)
    /\ result.args[1] \notin DOMAIN prerequisites
    /\ DOMAIN prerequisites # {}

(* ====================== properties of the sessions ==================== *)

\* the elapsed time of the session object before and after the step
ElapsedBefore == GetElapsedMinutes(held[1], now)
ElapsedAfter == GetElapsedMinutes(held'[1], now')

\* C31: through every sequence of pause, resume and end calls the elapsed
\* time is the active time only: it grows with the clock while the session is
\* ACTIVE, stands still while it is paused or ended, and no call changes it
\* (ending a paused session does not add the pause to it).
C31_ElapsedIsActiveTime ==
    [][(held # NoSession /\ held' # NoSession) =>
          IF now' # now /\ held[1].status = ACTIVE
          THEN ElapsedAfter = ElapsedBefore + TotalSeconds(now, now')
          ELSE ElapsedAfter = ElapsedBefore]_vars

\* C40: pause changes a session only when it is ACTIVE (to PAUSED, stamping
\* paused_at), resume changes it only when it is PAUSED (back to ACTIVE,
\* clearing paused_at); in every other status both calls leave the whole
\* session as it was, so a COMPLETED or ABANDONED session is never made
\* ACTIVE or PAUSED again by them.
C40_GuardedTransitions ==
    [][(held # NoSession /\ now' = now) =>
          LET before == held[1]
              after == held'[1]
          IN  /\ result'.op = "pause" =>
                    IF before.status = ACTIVE
                    THEN after = [before EXCEPT !.status = PAUSED, !.paused_at = now]
                    ELSE after = before
              /\ result'.op = "resume" =>
                    IF before.status = PAUSED
                    THEN /\ after.status = ACTIVE
                         /\ after.paused_at = NoTime
                         /\ after = [before EXCEPT
                                        !.status = ACTIVE, !.paused_at = NoTime,
                                        !.total_paused_seconds = after.total_paused_seconds]
                    ELSE after = before
              /\ (result'.op \in {"pause", "resume"}
                      /\ before.status \in {COMPLETED, ABANDONED}) =>
                    after.status = before.status]_vars

\* resume has been called on a session that was ended while paused, and has
\* left it ended
C40_Witness ==
    /\ result.op = "resume"
    /\ held[1].status \in {COMPLETED, ABANDONED}
    /\ held[1].paused_at # NoTime
    /\ held[1].ended_at # NoTime

\* C38: in every state reached by add_task, start_task, complete_task and
\* skip_task calls, tasks_completed + tasks_skipped is at most the number of
\* tasks of the session.
C38_CountersWithinTasks ==
    held # NoSession =>
        held[1].tasks_completed + held[1].tasks_skipped <= Len(held[1].tasks)

\* C32: the manager holds at most one session, and it is a live one; a
\* start_session while a session is held (active or paused) leaves that session
\* ABANDONED, ended and saved in its file, and holds a new ACTIVE session that
\* active.json names; after an end_session that returns a session none is held
\* and the ended session is saved COMPLETED.
LiveStatuses == {ACTIVE, PAUSED}

C32_OneLiveSession ==
    [][ /\ Len(held') <= 1
        /\ held' # NoSession => held'[1].status \in LiveStatuses
        /\ (now' = now /\ result'.op = "start_session") =>
              /\ held' # NoSession
              /\ held'[1].status = ACTIVE
              /\ held'[1].session_id = result'.value[1]
              /\ state_dir'.active = <<SessionToDict(held'[1], now)>>
              /\ state_dir'.sessions[held'[1].session_id] = SessionToDict(held'[1], now)
              /\ held # NoSession =>
                    /\ held'[1].session_id # held[1].session_id
                    /\ LET data == state_dir'.sessions[held[1].session_id]
                       IN  /\ data.status = ABANDONED
                           /\ data.ended_at = now
                           /\ SessionFromDict(data) = EndOp(held[1], ABANDONED, now)
        /\ (now' = now /\ result'.op = "end_session" /\ result'.value # NoValue) =>
              /\ held # NoSession
              /\ held' = NoSession
              /\ state_dir'.active = <<>>
              /\ state_dir'.sessions[held[1].session_id].status = COMPLETED
      ]_vars

\* a paused session has been replaced by start_session
C32_Witness ==
    /\ result.op = "start_session"
    /\ result.value[1] > 1
    /\ held # NoSession
    /\ \E n \in 1..Len(state_dir.sessions) :
          /\ state_dir.sessions[n].status = ABANDONED
          /\ state_dir.sessions[n].paused_at # NoTime

\* C37: a session paused through one manager is held by the manager constructed
\* next on the same state directory, and a resume_session on a held PAUSED
\* session leaves it ACTIVE.
C37_PausedSessionSurvives ==
    [][ /\ (now' = now /\ result'.op = "new_manager"
              /\ held # NoSession /\ held[1].status = PAUSED) => held' = held
        /\ (now' = now /\ result'.op = "resume_session"
              /\ held # NoSession /\ held[1].status = PAUSED) =>
                 (held' # NoSession /\ held'[1].status = ACTIVE)
      ]_vars

(* ===================== properties of the FIRe credit ================== *)

\* the record of the topic is not the same after the step, or has appeared
RecordModified(topic_id) ==
    \/ (topic_id \in DOMAIN records') # (topic_id \in DOMAIN records)
    \/ RecordOf(records', topic_id) # RecordOf(records, topic_id)

\* C33: a practice or review command on a topic modifies, besides the record
\* of the topic, only records of its direct prerequisites, and those only for
\* a score of at least 0.6; ancestors that are not direct prerequisites are
\* never modified and a score in [0.5, 0.6) modifies no ancestor.
C33_CreditOnlyDirectPrerequisites ==
    [][ (now' = now /\ result'.op \in {"practice_complete", "review_complete"}) =>
           \A k \in TopicIds \ {result'.args[1]} :
              RecordModified(k) =>
                 /\ k \in Get(prerequisites, result'.args[1])
                 /\ result'.args[2] >= Pct(60)
      ]_vars

\* "A" on "B" on "C", all three practised: "A" last, a day after, with 0.6;
\* the credit has reached "B" and not "C"
C33_Witness ==
    /\ result.op = "practice_complete"
    /\ result.args = <<"A", Pct(60)>>
    /\ Get(prerequisites, "A") = {"B"}
    /\ Get(prerequisites, "B") = {"C"}
    /\ DOMAIN records = {"A", "B", "C"}
    /\ records["B"].last_practiced < now /\ records["B"].last_review = now
    /\ records["C"].last_practiced < now /\ records["C"].last_review < now

(* ================== properties of the ranks over a run ================ *)

\* C34: after every record_practice and every complete_review the rank of the
\* practised record is at least Introduced, whatever the score, and no step
\* takes a record that is above Unknown back to Unknown.
C34_NeverBackToUnknown ==
    [][ /\ result'.op \in {"record_practice", "complete_review"} =>
              records'[result'.args[1]].level >= INTRODUCED
        /\ \A k \in DOMAIN records :
              records[k].level # UNKNOWN =>
                 (k \in DOMAIN records' /\ records'[k].level # UNKNOWN)
      ]_vars

\* a first practice with a score under 0.30 has made the record Introduced,
\* and a second one has left it there
C34_Witness ==
    /\ result.op = "record_practice"
    /\ result.args[2] < Pct(30)
    /\ Len(records["A"].history) = 2
    /\ records["A"].history[1].score < Pct(30)
    /\ records["A"].history[1].level_before = UNKNOWN
    /\ records["A"].history[1].level_after = INTRODUCED
    /\ records["A"].level = INTRODUCED

\* the events of the record form a chain that ends at its rank
ChainOk(rec) ==
    LET h == rec.history
    IN  /\ \A i \in 1..Len(h) :
              /\ h[i].level_after - h[i].level_before \in {-1, 0, 1}
              /\ i < Len(h) => h[i].level_after = h[i + 1].level_before
        /\ h # <<>> => h[Len(h)].level_after = rec.level

\* C35: in every record the history is a chain: the level_after of an event is
\* the level_before of the next, the two levels of an event are at most one
\* rank apart, and the level_after of the last event is the rank of the record.
C35_HistoryIsAChain == \A k \in DOMAIN records : ChainOk(records[k])

\* a record that has risen, has been credited by FIRe, and has dropped
C35_Witness ==
    /\ "A" \in DOMAIN records
    /\ LET h == records["A"].history
       IN  /\ Len(h) = 3
           /\ h[2].level_after > h[2].level_before
           /\ h[3].level_after < h[3].level_before
           /\ records["A"].stability #
                 PracticeStability(PracticeStability(PracticeStability(Scale,
                    h[1].score), h[2].score), h[3].score)

(* ================= properties of the loaded snapshot ================== *)

\* the pairs of the snapshot last loaded that join two registered topics and
\* are not in the graph
SkippedEdges ==
    {e \in SnapshotEdges : /\ e[1] \in Registered(topics)
                           /\ e[2] \in Registered(topics)
                           /\ e[2] \notin Get(prerequisites, e[1])}

\* C36: the graph from_dict returns is a maximal valid subgraph of the
\* snapshot: every pair of the snapshot that joins two registered topics and
\* was skipped would close a cycle in the graph returned, so add_prerequisite
\* on that graph still refuses it.
C36_LoadedGraphIsMaximal ==
    result.op = "from_dict" =>
        \A e \in SkippedEdges :
            /\ e[1] = e[2] \/ e[1] \in Reach(prerequisites, e[2])
            /\ \A ord \in Orders : AddPrerequisiteOp(Graph, e[1], e[2], ord).err = "Cycle"

\* a snapshot of two topics whose pairs point both ways: the pair loaded
\* first is in the graph, the other one was skipped
C36_Witness ==
    /\ result.op = "from_dict"
    /\ Range(result.args[1].prerequisites) = {<<"A", "B">>, <<"B", "A">>}
    /\ Cardinality(SkippedEdges) = 1
    /\ \E e \in SkippedEdges : e[1] \in Get(prerequisites, e[2])

(* ================ properties of the optimal review date =============== *)

\* C39: for a record with a last review and a rank above Unknown, the date
\* get_optimal_review_date returns is not earlier than the last review of the
\* record, whatever the time of day of that review, the stability and the
\* target retention.
C39_ReviewDateNotBeforeLastReview ==
    (result.op = "get_optimal_review_date" /\ result.value # <<>>) =>
        result.value[1] >= records[result.args[1]].last_review

====
